---- MODULE Spec2Model ----
(***************************************************************************)
(* Multi-list to-do workspace: the React component App of src/src/App.tsx  *)
(* and its variant src/unnamed/part_000.  The state is the component's     *)
(* useState cells (lists, activeListId, deleting), the pending setTimeout   *)
(* callbacks of deleteTask, the persisted last-reset date, and the values   *)
(* of lists / activeListId captured by the closures of the last render.     *)
(* Strings are sequences of one-character strings, so that trim, split and  *)
(* the parser's regular expressions are computed and not assumed.           *)
(***************************************************************************)
EXTENDS Integers, Sequences, FiniteSets, TLC

(* ------------------------------------------------------------------ *)
(* Bounds of the model                                                *)
(* ------------------------------------------------------------------ *)
\* uid() returns 1, 2, ... and is called at most MaxUid times in a behaviour of Spec
\* (the two bootstrap lists included).
MaxUid == 3
\* at most MaxTimers deleteTask timeouts are pending at once in a behaviour of Spec.
MaxTimers == 1
\* the bound on uid() for the ingestion specification SpecIngest (no timeouts there)
MaxIngestUid == 6
\* and for the router specification SpecRoute
MaxRouteUid == 6
\* and for the parser specification SpecParse
MaxParseUid == 8
MaxResetUid == 5
MaxSearchUid == 3
MaxBootUid == 4
MaxArchiveUid == 6
MaxAddUid == 5
MaxTwinUid == 4
MaxItemsUid == 3
MaxItemsTimers == 1
MaxFadeUid == 4
MaxFadeTimers == 2
\* and the two bounds for the drag specifications SpecDrag and SpecDeferred
\* (no timeouts in SpecDeferred)
MaxDragUid == 4
MaxDragTimers == 1
\* SpecTwice: how many timeouts may be pending, so that one task can be deleted twice
MaxTwiceTimers == 2

(* ------------------------------------------------------------------ *)
(* Strings                                                            *)
(* ------------------------------------------------------------------ *)
\* null / undefined / "" for an id
Null == 0

\* the characters String.prototype.trim and \s treat as white space
WhiteSpace == {" ", "\t", "\n", "\r"}
\* [:：]  (FWCOLON stands for the full-width colon U+FF1A)
Colons == {":", "FWCOLON"}
\* [-*•]  (BULLET stands for U+2022)
BulletChars == {"-", "*", "BULLET"}
\* \d
Digits == {"0", "1", "2", "3", "4", "5", "6", "7", "8", "9"}
\* characters "." does not match in a JavaScript regular expression
LineTerminators == {"\n", "\r"}

UpperToLower == [c \in {"I", "T", "U", "X", "A", "B"} |->
                   CASE c = "I" -> "i" [] c = "T" -> "t" [] c = "U" -> "u"
                     [] c = "X" -> "x" [] c = "A" -> "a" [] c = "B" -> "b"]

toLowerCase(s) == [i \in 1..Len(s) |->
                     IF s[i] \in DOMAIN UpperToLower THEN UpperToLower[s[i]] ELSE s[i]]

RECURSIVE trimStart(_)
trimStart(s) == IF s # <<>> /\ Head(s) \in WhiteSpace THEN trimStart(Tail(s)) ELSE s

RECURSIVE trimEnd(_)
trimEnd(s) == IF s # <<>> /\ s[Len(s)] \in WhiteSpace
              THEN trimEnd(SubSeq(s, 1, Len(s) - 1)) ELSE s

trim(s) == trimEnd(trimStart(s))

\* raw.replace(/\r\n/g, "\n")
RECURSIVE replaceCRLF(_)
replaceCRLF(s) ==
  IF s = <<>> THEN <<>>
  ELSE IF Len(s) >= 2 /\ s[1] = "\r" /\ s[2] = "\n"
       THEN <<"\n">> \o replaceCRLF(SubSeq(s, 3, Len(s)))
       ELSE <<s[1]>> \o replaceCRLF(Tail(s))

\* s.split("\n"): always at least one piece
RECURSIVE split(_)
split(s) ==
  IF \A i \in 1..Len(s) : s[i] # "\n" THEN <<s>>
  ELSE LET k == CHOOSE i \in 1..Len(s) : s[i] = "\n" /\ \A j \in 1..(i - 1) : s[j] # "\n"
       IN  <<SubSeq(s, 1, k - 1)>> \o split(SubSeq(s, k + 1, Len(s)))

\* .map((s) => s.trim()).filter(Boolean)
RECURSIVE trimAndFilter(_)
trimAndFilter(pieces) ==
  IF pieces = <<>> THEN <<>>
  ELSE LET t == trim(Head(pieces))
       IN  (IF t = <<>> THEN <<>> ELSE <<t>>) \o trimAndFilter(Tail(pieces))

\* the lines parseTextToTasks works on
linesOf(raw) == trimAndFilter(split(replaceCRLF(raw)))

\* /[:：]\s*$/.test(line)
isHeading(line) ==
  LET t == trimEnd(line) IN t # <<>> /\ t[Len(t)] \in Colons

\* line.replace(/[:：]\s*$/, "").trim()
stripHeading(line) ==
  LET t == trimEnd(line) IN trim(SubSeq(t, 1, Len(t) - 1))

\* length of the prefix matched by (?:[-*•]\s+|\d+\.\s+), 0 when there is none
RECURSIVE countWhile(_, _, _)
countWhile(s, i, set) ==
  IF i <= Len(s) /\ s[i] \in set THEN 1 + countWhile(s, i + 1, set) ELSE 0

\* const norm = (s) => s.toLowerCase().trim()
norm(s) == trim(toLowerCase(s))

\* s.split(sep) for a set of one-character separators, a run of them counting
\* as one when runs is TRUE (/\s+/), each of them otherwise (",")
RECURSIVE splitOn(_, _, _)
splitOn(s, seps, runs) ==
  IF \A i \in 1..Len(s) : s[i] \notin seps THEN <<s>>
  ELSE LET k == CHOOSE i \in 1..Len(s) : s[i] \in seps /\ \A j \in 1..(i - 1) : s[j] \notin seps
           n == IF runs THEN countWhile(s, k, seps) ELSE 1
       IN  <<SubSeq(s, 1, k - 1)>> \o splitOn(SubSeq(s, k + n, Len(s)), seps, runs)

\* text.includes(q)
includes(text, q) ==
  \E i \in 0..(Len(text) - Len(q)) : SubSeq(text, i + 1, i + Len(q)) = q

markerLen(line) ==
  IF line = <<>> THEN 0
  ELSE IF line[1] \in BulletChars
       THEN LET w == countWhile(line, 2, WhiteSpace) IN IF w = 0 THEN 0 ELSE 1 + w
       ELSE LET d == countWhile(line, 1, Digits) IN
            IF d = 0 \/ d + 1 > Len(line) \/ line[d + 1] # "." THEN 0
            ELSE LET w == countWhile(line, d + 2, WhiteSpace) IN
                 IF w = 0 THEN 0 ELSE d + 1 + w

\* line.match(/^(?:[-*•]\s+|\d+\.\s+)(.+)$/): group 1, or <<>> when no match
\* (\s+ may give back white space to (.+), so group 1 is non-empty whenever
\*  a character follows the marker; "." rejects line terminators)
bulletMatch(line) ==
  LET m == markerLen(line) IN
  IF m = 0 THEN <<>>
  ELSE LET markEnd == IF line[1] \in BulletChars THEN 1 ELSE countWhile(line, 1, Digits) + 1
           rest == IF m < Len(line) THEN SubSeq(line, m + 1, Len(line))
                   ELSE IF m - markEnd >= 2 THEN <<line[Len(line)]>> ELSE <<>>
       IN  IF \E i \in 1..Len(rest) : rest[i] \in LineTerminators THEN <<>> ELSE rest

\* the item text with the marker left in
itemTextVerbatim(line) == line

\* bulletMatch ? bulletMatch[1].trim() : line
itemText(line) == IF bulletMatch(line) # <<>> THEN trim(bulletMatch(line)) ELSE line

(* ------------------------------------------------------------------ *)
(* State                                                              *)
(* ------------------------------------------------------------------ *)
VARIABLES
  lists,          \* useState<ListsState>: sequence of List records
  activeListId,   \* useState<ID>
  deleting,       \* useState<Set<ID>>: ids fading out
  timers,         \* pending setTimeout callbacks of deleteTask, oldest first
  lastResetDate,  \* localStorage "todo.lastResetDate.v1", as isToday sees it: "today" or "past"
  nextUid,        \* the next value uid() returns
  variant,        \* which source file runs: "App" or "part_000"
  rLists,         \* `lists` as captured by the handlers of the last render
  rActiveListId,  \* `activeListId` as captured by the handlers of the last render
  crashed,        \* a render threw (a task slot holds undefined): the tree is unmounted
  drag,           \* the id of the task being dragged (dnd-kit's active), Null when none
  start,          \* the list the gesture picked the task from, as rendered then; Null when none or not kept
  search,         \* useState(""): the text of the search box
  ev              \* the last event delivered to a handler and the case it fell in

vars == <<lists, activeListId, deleting, timers, lastResetDate, nextUid,
          variant, rLists, rActiveListId, crashed, drag, start, search, ev>>

Inbox    == <<"I", "n", "b", "o", "x">>
Today    == <<"T", "o", "d", "a", "y">>
Untitled == <<"U", "n", "t", "i", "t", "l", "e", "d">>

\* { id, name, tasks: [], autoResetMidnight }
NewList(id, name, auto) == [id |-> id, name |-> name, tasks |-> <<>>, autoResetMidnight |-> auto]
\* makeTask / the literal of addTask: completed false, priority "med", no tags
makeTask(id, text) ==
  [id |-> id, text |-> text, completed |-> FALSE, priority |-> "med", tags |-> <<>>]
\* what Array.prototype.find / splice(...)[0] give when nothing is there
UndefinedTask ==
  [id |-> Null, text |-> <<>>, completed |-> FALSE, priority |-> "med", tags |-> <<>>]

(* ------------------------------------------------------------------ *)
(* Array helpers (indices are 0-based as in the source, -1 = not found) *)
(* ------------------------------------------------------------------ *)
ListIds(ls) == {ls[i].id : i \in 1..Len(ls)}
TaskIds(ls) == UNION {{ls[i].tasks[j].id : j \in 1..Len(ls[i].tasks)} : i \in 1..Len(ls)}
hasTask(l, taskId) == \E j \in 1..Len(l.tasks) : l.tasks[j].id = taskId

\* tasks.findIndex((t) => t.id === id)
findIndex(tasks, id) ==
  IF \E j \in 1..Len(tasks) : tasks[j].id = id
  THEN (CHOOSE j \in 1..Len(tasks) : tasks[j].id = id /\ \A k \in 1..(j - 1) : tasks[k].id # id) - 1
  ELSE -1

\* ls.find((l) => l.id === id): its position in ls, 0 when undefined
findList(ls, id) ==
  IF \E i \in 1..Len(ls) : ls[i].id = id
  THEN CHOOSE i \in 1..Len(ls) : ls[i].id = id /\ \A k \in 1..(i - 1) : ls[k].id # id
  ELSE 0

\* tasks.filter((t) => t.id !== id)
withoutTask(tasks, id) == SelectSeq(tasks, LAMBDA t : t.id # id)

\* copy = [...tasks]; copy.splice(index, 0, item)
spliceInsert(tasks, index, item) ==
  LET k == IF index > Len(tasks) THEN Len(tasks) ELSE index
  IN  SubSeq(tasks, 1, k) \o <<item>> \o SubSeq(tasks, k + 1, Len(tasks))

\* @dnd-kit/sortable arrayMove(array, from, to), for from >= 0:
\* newArray.splice(to < 0 ? length + to : to, 0, newArray.splice(from, 1)[0])
arrayMove(array, from, to) ==
  LET moved == IF from < Len(array) THEN array[from + 1] ELSE UndefinedTask
      rest  == IF from < Len(array)
               THEN SubSeq(array, 1, from) \o SubSeq(array, from + 2, Len(array))
               ELSE array
      at    == IF to < 0 THEN (IF Len(rest) + to < 0 THEN 0 ELSE Len(rest) + to) ELSE to
  IN  spliceInsert(rest, at, moved)

hasUndefined(ls) == \E i \in 1..Len(ls) : hasTask(ls[i], Null)

(* ------------------------------------------------------------------ *)
(* What a handler leaves behind: the state after its queued updaters   *)
(* have run in order, the uid counter, and whether an updater threw.   *)
(* ------------------------------------------------------------------ *)
\* const x = v; return F(x): v is computed once
With(v, F(_)) == CHOOSE r \in {F(x) : x \in {v}} : TRUE

Result(ls, act, nxt, threw) ==
  [lists |-> ls, activeListId |-> act, nextUid |-> nxt, threw |-> threw]
Same == Result(lists, activeListId, nextUid, FALSE)

(* closures of the last render *)
\* const listIds = useMemo(() => lists.map((l) => l.id), [lists])
listIds == ListIds(rLists)
\* const activeList = lists.find((l) => l.id === activeListId) || lists[0]  (its id)
activeList ==
  IF findList(rLists, rActiveListId) # 0 THEN rActiveListId
  ELSE IF Len(rLists) > 0 THEN rLists[1].id ELSE Null

findListIdByTask(taskId) ==
  IF \E i \in 1..Len(rLists) : hasTask(rLists[i], taskId)
  THEN rLists[CHOOSE i \in 1..Len(rLists) :
                 hasTask(rLists[i], taskId) /\ \A k \in 1..(i - 1) : ~hasTask(rLists[k], taskId)].id
  ELSE Null

\* over.id resolved to a list: the list itself or the list of the hovered task
resolveTo(overId) == IF overId \in listIds THEN overId ELSE findListIdByTask(overId)

(* ------------------------------------------------------------------ *)
(* List and task operations                                           *)
(* ------------------------------------------------------------------ *)
addList(newListName) ==
  LET name == IF trim(newListName) # <<>> THEN trim(newListName) ELSE Untitled
  IN  Result(Append(lists, NewList(nextUid, name, FALSE)), nextUid, nextUid + 1, FALSE)

\* removeList handing the tasks of the removed list to the first list that stays
removeListKeepingTasks(id) ==
  With(SelectSeq(lists, LAMBDA l : l.id # id), LAMBDA rest :
    Result([i \in 1..Len(rest) |->
              IF i = 1 /\ findList(lists, id) # 0
              THEN [rest[i] EXCEPT !.tasks = @ \o lists[findList(lists, id)].tasks]
              ELSE rest[i]],
           IF rActiveListId = id /\ Len(rLists) > 0 THEN rLists[1].id ELSE activeListId,
           nextUid, FALSE))

\* removeList falling back to the last list instead of the first
removeListToLast(id) ==
  Result(SelectSeq(lists, LAMBDA l : l.id # id),
         IF rActiveListId = id /\ Len(rLists) > 0 THEN rLists[Len(rLists)].id ELSE activeListId,
         nextUid, FALSE)

removeList(id) ==
  Result(SelectSeq(lists, LAMBDA l : l.id # id),
         IF rActiveListId = id /\ Len(rLists) > 0 THEN rLists[1].id ELSE activeListId,
         nextUid, FALSE)

\* ls.map((l) => (l.id === id ? { ...l, autoResetMidnight: !l.autoResetMidnight } : l))
toggleListReset(id) ==
  Result([i \in 1..Len(lists) |->
            IF lists[i].id = id
            THEN [lists[i] EXCEPT !.autoResetMidnight = ~@]
            ELSE lists[i]],
         activeListId, nextUid, FALSE)

\* addTask putting the task behind the tasks of the list
addTaskAtEnd(newTask) ==
  LET text == trim(newTask) IN
  IF text = <<>> \/ activeList = Null THEN Same
  ELSE Result([i \in 1..Len(lists) |->
                 IF lists[i].id = activeList
                 THEN [lists[i] EXCEPT !.tasks = @ \o <<makeTask(nextUid, text)>>]
                 ELSE lists[i]],
              activeListId, nextUid + 1, FALSE)

addTask(newTask) ==
  LET text == trim(newTask) IN
  IF text = <<>> \/ activeList = Null THEN Same
  ELSE Result([i \in 1..Len(lists) |->
                 IF lists[i].id = activeList
                 THEN [lists[i] EXCEPT !.tasks = <<makeTask(nextUid, text)>> \o @]
                 ELSE lists[i]],
              activeListId, nextUid + 1, FALSE)

toggleTask(listId, taskId) ==
  Result([i \in 1..Len(lists) |->
            IF lists[i].id = listId
            THEN [lists[i] EXCEPT !.tasks =
                    [j \in 1..Len(@) |-> IF @[j].id = taskId
                                         THEN [@[j] EXCEPT !.completed = ~@] ELSE @[j]]]
            ELSE lists[i]],
         activeListId, nextUid, FALSE)

\* archiveCompleted filtering the tasks of every list
archiveCompletedEverywhere(listId) ==
  Result([i \in 1..Len(lists) |->
            [lists[i] EXCEPT !.tasks = SelectSeq(@, LAMBDA t : ~t.completed)]],
         activeListId, nextUid, FALSE)

archiveCompleted(listId) ==
  Result([i \in 1..Len(lists) |->
            IF lists[i].id = listId
            THEN [lists[i] EXCEPT !.tasks = SelectSeq(@, LAMBDA t : ~t.completed)]
            ELSE lists[i]],
         activeListId, nextUid, FALSE)

\* the callback filtering the lists instead of the tasks of the list
timeoutCallbackDropsList(listId, taskId) ==
  Result(SelectSeq(lists, LAMBDA l : l.id # listId), activeListId, nextUid, FALSE)

\* the callback deleteTask hands to setTimeout
timeoutCallback(listId, taskId) ==
  Result([i \in 1..Len(lists) |->
            IF lists[i].id = listId
            THEN [lists[i] EXCEPT !.tasks = withoutTask(@, taskId)]
            ELSE lists[i]],
         activeListId, nextUid, FALSE)

\* isToday finding no stored instant on the day of the wall clock
isTodayNever(iso) == FALSE

\* isToday(iso): the stored instant falls on the calendar day of the wall clock
isToday(iso) == iso = "today"

\* resetIfNeeded emptying every list
resetIfNeededAll ==
  IF ~isToday(lastResetDate)
  THEN Result([i \in 1..Len(lists) |-> [lists[i] EXCEPT !.tasks = <<>>]],
              activeListId, nextUid, FALSE)
  ELSE Same

\* resetIfNeeded, the lists part: prev.map((l) => (l.autoResetMidnight ? {...l, tasks: []} : l))
resetIfNeeded ==
  IF ~isToday(lastResetDate)
  THEN Result([i \in 1..Len(lists) |->
                 IF lists[i].autoResetMidnight THEN [lists[i] EXCEPT !.tasks = <<>>]
                 ELSE lists[i]],
              activeListId, nextUid, FALSE)
  ELSE Same

(* ------------------------------------------------------------------ *)
(* Drag transfer                                                      *)
(* ------------------------------------------------------------------ *)
\* moveAcross as a copy: the source list keeps the dragged task
moveAcrossCopies(ls, fromListId, toListId, activeId, overId) ==
  LET f == findList(ls, fromListId)
      t == findList(ls, toListId)
  IN  IF f = 0 \/ t = 0 THEN Result(ls, activeListId, nextUid, TRUE)
      ELSE
      LET from        == ls[f]
          to          == ls[t]
          activeTask  == IF hasTask(from, activeId)
                         THEN from.tasks[findIndex(from.tasks, activeId) + 1]
                         ELSE UndefinedTask
          overIndex   == IF overId \in listIds THEN Len(to.tasks)
                         ELSE findIndex(to.tasks, overId)
          insertIndex == IF overIndex < 0 THEN Len(to.tasks) ELSE overIndex
          toTasks     == spliceInsert(to.tasks, insertIndex, activeTask)
      IN  Result([i \in 1..Len(ls) |->
                    IF ls[i].id = toListId THEN [ls[i] EXCEPT !.tasks = toTasks] ELSE ls[i]],
                 activeListId, nextUid, FALSE)

\* the updater handleDragOver queues, applied to the state ls
moveAcross(ls, fromListId, toListId, activeId, overId) ==
  LET f == findList(ls, fromListId)
      t == findList(ls, toListId)
  IN  IF f = 0 \/ t = 0 THEN Result(ls, activeListId, nextUid, TRUE)
      ELSE
      LET from        == ls[f]
          to          == ls[t]
          activeTask  == IF hasTask(from, activeId)
                         THEN from.tasks[findIndex(from.tasks, activeId) + 1]
                         ELSE UndefinedTask
          fromTasks   == withoutTask(from.tasks, activeId)
          overIndex   == IF overId \in listIds THEN Len(to.tasks)
                         ELSE findIndex(to.tasks, overId)
          insertIndex == IF overIndex < 0 THEN Len(to.tasks) ELSE overIndex
          toTasks     == spliceInsert(to.tasks, insertIndex, activeTask)
      IN  Result([i \in 1..Len(ls) |->
                    IF ls[i].id = fromListId THEN [ls[i] EXCEPT !.tasks = fromTasks]
                    ELSE IF ls[i].id = toListId THEN [ls[i] EXCEPT !.tasks = toTasks]
                    ELSE ls[i]],
                 activeListId, nextUid, FALSE)

handleDragOver(activeId, overId) ==
  LET fromListId == findListIdByTask(activeId)
      toListId   == resolveTo(overId)
  IN  IF overId = Null THEN Same
      ELSE IF fromListId = Null \/ toListId = Null \/ fromListId = toListId THEN Same
      ELSE moveAcross(lists, fromListId, toListId, activeId, overId)

\* handleDragEnd taking a release outside every droppable for a release on the
\* task's own list
handleDragEndNoTarget(activeId, overId) ==
  LET fromListId == findListIdByTask(activeId)
      target     == IF overId = Null THEN fromListId ELSE overId
      toListId   == resolveTo(target)
  IN  IF fromListId = Null \/ toListId = Null THEN Same
      ELSE IF fromListId = toListId
      THEN LET list     == rLists[findList(rLists, fromListId)]
               oldIndex == findIndex(list.tasks, activeId)
               newIndex == IF target \in listIds
                           THEN (IF Len(list.tasks) - 1 > 0 THEN Len(list.tasks) - 1 ELSE 0)
                           ELSE findIndex(list.tasks, target)
           IN  IF oldIndex # newIndex /\ newIndex >= 0
               THEN Result([i \in 1..Len(lists) |->
                              IF lists[i].id = list.id
                              THEN [lists[i] EXCEPT !.tasks = arrayMove(@, oldIndex, newIndex)]
                              ELSE lists[i]],
                           activeListId, nextUid, FALSE)
               ELSE Same
      ELSE Same

handleDragEnd(activeId, overId) ==
  LET fromListId == findListIdByTask(activeId)
      toListId   == resolveTo(overId)
  IN  IF overId = Null THEN Same
      ELSE IF fromListId = Null \/ toListId = Null THEN Same
      ELSE IF fromListId = toListId
      THEN LET list     == rLists[findList(rLists, fromListId)]
               oldIndex == findIndex(list.tasks, activeId)
               newIndex == IF overId \in listIds
                           THEN (IF Len(list.tasks) - 1 > 0 THEN Len(list.tasks) - 1 ELSE 0)
                           ELSE findIndex(list.tasks, overId)
           IN  IF oldIndex # newIndex /\ newIndex >= 0
               THEN Result([i \in 1..Len(lists) |->
                              IF lists[i].id = list.id
                              THEN [lists[i] EXCEPT !.tasks = arrayMove(@, oldIndex, newIndex)]
                              ELSE lists[i]],
                           activeListId, nextUid, FALSE)
               ELSE Same
      ELSE Same

(* ------------------------------------------------------------------ *)
(* Ingestion: parser and router                                       *)
(* ------------------------------------------------------------------ *)
\* the lookup comparing the names as they are written
findListByNameExact(name) ==
  With({i \in 1..Len(rLists) : rLists[i].name = name},
       LAMBDA hits : IF hits = {} THEN Null
                     ELSE rLists[CHOOSE i \in hits : \A k \in hits : i <= k].id)

\* lists.find((l) => l.name.trim().toLowerCase() === name.trim().toLowerCase()) || null
findListByName(name) ==
  With({i \in 1..Len(rLists) : toLowerCase(trim(rLists[i].name)) = toLowerCase(trim(name))},
       LAMBDA hits : IF hits = {} THEN Null
                     ELSE rLists[CHOOSE i \in hits : \A k \in hits : i <= k].id)

\* the id, the list it queued for creation (if any), and the uid counter afterwards
Got(id, created, nxt) == [id |-> id, created |-> created, nextUid |-> nxt]

getOrCreateListByName(name, nxt) ==
  With(findListByName(name),
       LAMBDA hit : IF hit # Null THEN Got(hit, <<>>, nxt)
                    ELSE Got(nxt, <<NewList(nxt, name, FALSE)>>, nxt + 1))

ensureInboxId(nxt) == getOrCreateListByName(Inbox, nxt)
\* src/src/App.tsx only
ensureTodayId(nxt) == getOrCreateListByName(Today, nxt)
\* src/unnamed/part_000 only: findListByName("Today")?.id || null
findTodayId == findListByName(Today)

\* activeList?.id ?? ensureInboxId()
activeOrInbox(nxt) == IF activeList # Null THEN Got(activeList, <<>>, nxt) ELSE ensureInboxId(nxt)

\* the fallback of part_000 without its look-up of Today
todayOrActiveOrInboxBlind(nxt) == activeOrInbox(nxt)

\* src/unnamed/part_000 only: findTodayId() ?? (activeList?.id ?? ensureInboxId())
todayOrActiveOrInbox(nxt) ==
  With(findTodayId, LAMBDA tid : IF tid # Null THEN Got(tid, <<>>, nxt) ELSE activeOrInbox(nxt))

\* forcedListId forcing no list for the target active
forcedListIdNotActive(target, nxt) ==
  CASE target = "inbox"  -> ensureInboxId(nxt)
    [] target = "today"  -> IF variant = "App" THEN ensureTodayId(nxt)
                            ELSE todayOrActiveOrInbox(nxt)
    [] OTHER             -> Got(Null, <<>>, nxt)

\* the forcedListId expression of parseTextToTasks
forcedListId(target, nxt) ==
  CASE target = "inbox"  -> ensureInboxId(nxt)
    [] target = "today"  -> IF variant = "App" THEN ensureTodayId(nxt)
                            ELSE todayOrActiveOrInbox(nxt)
    [] target = "active" -> activeOrInbox(nxt)
    [] OTHER             -> Got(Null, <<>>, nxt)

\* lines.map(makeTask)
mapMakeTask(lines, nxt) == [i \in 1..Len(lines) |-> makeTask(nxt + i - 1, lines[i])]

\* what parseTextToTasks returns (map) and what it did on the way (created, nextUid)
Parsed(map, created, nxt) == [map |-> map, created |-> created, nextUid |-> nxt]

\* setBucket(listId) on the accumulator of the group loop
setBucket(acc, listId) ==
  [acc EXCEPT !.map = IF listId \in DOMAIN @ THEN @ ELSE @ @@ (listId :> <<>>),
              !.current = listId]

\* result[currentListId].push(makeTask(text))
pushTask(acc, text) ==
  [acc EXCEPT !.map = [@ EXCEPT ![acc.current] = Append(@, makeTask(acc.nextUid, text))],
              !.nextUid = @ + 1]

\* getOrCreateListByName / ensureInboxId called from the loop: g is what it returned
bucketOf(acc, g) ==
  setBucket([acc EXCEPT !.created = @ \o g.created, !.nextUid = g.nextUid], g.id)

\* the iteration testing bulletMatch before isHeading
groupLineBulletFirst(acc, line) ==
  IF bulletMatch(line) = <<>> /\ isHeading(line)
  THEN With(stripHeading(line),
            LAMBDA name : bucketOf(acc, getOrCreateListByName(
                                          IF name # <<>> THEN name ELSE Untitled, acc.nextUid)))
  ELSE IF acc.current = Null
       THEN With(bucketOf(acc, activeOrInbox(acc.nextUid)),
                 LAMBDA a1 : pushTask(a1, itemText(line)))
       ELSE pushTask(acc, itemText(line))

\* the iteration opening the bucket of the active list on the first line,
\* heading or not
groupLineEager(acc, line) ==
  With(IF acc.current = Null THEN bucketOf(acc, activeOrInbox(acc.nextUid)) ELSE acc,
       LAMBDA a0 :
         IF isHeading(line)
         THEN With(stripHeading(line),
                   LAMBDA name : bucketOf(a0, getOrCreateListByName(
                                                 IF name # <<>> THEN name ELSE Untitled,
                                                 a0.nextUid)))
         ELSE pushTask(a0, itemText(line)))

\* one iteration of: for (const line of lines) { ... }
groupLine(acc, line) ==
  IF isHeading(line)
  THEN With(stripHeading(line),
            LAMBDA name : bucketOf(acc, getOrCreateListByName(
                                          IF name # <<>> THEN name ELSE Untitled, acc.nextUid)))
  ELSE IF acc.current = Null
       THEN With(bucketOf(acc, activeOrInbox(acc.nextUid)),
                 LAMBDA a1 : pushTask(a1, itemText(line)))
       ELSE pushTask(acc, itemText(line))

RECURSIVE groupLoop(_, _)
groupLoop(acc, lines) ==
  IF lines = <<>> THEN acc
  ELSE With(groupLine(acc, Head(lines)), LAMBDA a : groupLoop(a, Tail(lines)))

\* { [listId]: lines.map(makeTask) }, g being what produced listId
oneBucket(g, lines) ==
  Parsed(g.id :> mapMakeTask(lines, g.nextUid), g.created, g.nextUid + Len(lines))

\* the parser running the group loop in single mode as well
parseTextToTasksGrouping(raw, mode, target) ==
  With(linesOf(raw), LAMBDA lines :
  With(forcedListId(target, nextUid), LAMBDA forced :
    IF forced.id # Null THEN oneBucket(forced, lines)
    ELSE With(groupLoop([map |-> <<>>, current |-> Null, created |-> <<>>,
                         nextUid |-> nextUid], lines),
              LAMBDA acc : Parsed(acc.map, acc.created, acc.nextUid))))

parseTextToTasks(raw, mode, target) ==
  With(linesOf(raw), LAMBDA lines :
  With(forcedListId(target, nextUid), LAMBDA forced :
    IF forced.id # Null THEN oneBucket(forced, lines)
    ELSE IF mode = "single" THEN With(activeOrInbox(nextUid), LAMBDA g : oneBucket(g, lines))
    ELSE With(groupLoop([map |-> <<>>, current |-> Null, created |-> <<>>,
                         nextUid |-> nextUid], lines),
              LAMBDA acc : Parsed(acc.map, acc.created, acc.nextUid))))

\* addParsedTasks appending: [...l.tasks, ...incoming]
addParsedTasksAppends(ls, map) ==
  [i \in 1..Len(ls) |->
     IF ls[i].id \notin DOMAIN map \/ map[ls[i].id] = <<>> THEN ls[i]
     ELSE [ls[i] EXCEPT !.tasks = @ \o map[ls[i].id]]]

\* the updater addParsedTasks queues, applied to the state ls
addParsedTasks(ls, map) ==
  [i \in 1..Len(ls) |->
     IF ls[i].id \notin DOMAIN map \/ map[ls[i].id] = <<>> THEN ls[i]
     ELSE [ls[i] EXCEPT !.tasks = map[ls[i].id] \o @]]

\* the tail of handlePaste: setActiveListId(...) after addParsedTasks, ls and nxt
\* being the queued lists and the uid counter at that point
switchActive(ls, nxt, target) ==
  IF target = "today"
  THEN IF variant = "App"
       THEN With(ensureTodayId(nxt),
                 LAMBDA g : Result(ls \o g.created, g.id, g.nextUid, FALSE))
       ELSE With(findTodayId,
                 LAMBDA tid : Result(ls, IF tid # Null THEN tid ELSE activeListId, nxt, FALSE))
  ELSE IF target = "inbox"
  THEN With(ensureInboxId(nxt),
            LAMBDA g : Result(ls \o g.created, g.id, g.nextUid, FALSE))
  ELSE Result(ls, activeListId, nxt, FALSE)

\* handlePaste and handleDropPage (the same body): text is the text/plain payload
\* The result carries what the call of parseTextToTasks returned and did
\* (parsed; Null when the handler returned before calling it).
handlePaste(text, mode, target) ==
  IF text = <<>> THEN [parsed |-> Null] @@ Same
  ELSE With(parseTextToTasks(text, mode, target),
            LAMBDA p : [parsed |-> p]
                       @@ switchActive(addParsedTasks(lists \o p.created, p.map),
                                       p.nextUid, target))

\* an event of the component: the handler it reaches (op) and its arguments
Input(op, text, mode, target, a, b) ==
  [op |-> op, text |-> text, mode |-> mode, target |-> target, a |-> a, b |-> b]

\* what the handler of event e leaves in the source variant at hand
handlerOf(e) ==
  CASE e.op = "paste"            -> handlePaste(e.text, e.mode, e.target)
    [] e.op = "addList"          -> addList(e.text)
    [] e.op = "removeList"       -> removeList(e.a)
    [] e.op = "addTask"          -> addTask(e.text)
    [] e.op = "toggleTask"       -> toggleTask(e.a, e.b)
    [] e.op = "archiveCompleted" -> archiveCompleted(e.a)
    [] e.op = "timeout"          -> timeoutCallback(e.a, e.b)
    [] e.op = "tick"             -> resetIfNeeded
    [] e.op = "dragOver"         -> handleDragOver(e.a, e.b)
    [] OTHER                     -> handleDragEnd(e.a, e.b)

(* ------------------------------------------------------------------ *)
(* Search / filter                                                    *)
(* ------------------------------------------------------------------ *)
\* search.split(/\s+/).map(norm).filter(Boolean)
tokensOf(query) ==
  SelectSeq([i \in 1..Len(splitOn(query, WhiteSpace, TRUE)) |->
               norm(splitOn(query, WhiteSpace, TRUE)[i])],
            LAMBDA q : q # <<>>)

queryTokens == tokensOf(search)

\* the body of queryTokens.every((q) => ...):
\* text.includes(q) || tags.includes(q.startsWith("#") ? q.slice(1) : q)
tokenMatches(t, q) ==
  \/ includes(norm(t.text), q)
  \/ \E k \in 1..Len(t.tags) : norm(t.tags[k]) = (IF Head(q) = "#" THEN Tail(q) ELSE q)

taskMatches(t) ==
  IF Len(queryTokens) = 0 THEN TRUE
  ELSE \A n \in 1..Len(queryTokens) : tokenMatches(t, queryTokens[n])

\* what the lists grid shows
filteredLists ==
  IF Len(queryTokens) = 0 THEN rLists
  ELSE [i \in 1..Len(rLists) |->
          [rLists[i] EXCEPT !.tasks = SelectSeq(@, taskMatches)]]

\* the grid always rendered inside the DndContext
dndNeverDisabled == FALSE

dndDisabled == Len(queryTokens) > 0

\* commitEdit of SortableTask: the patch onEdit receives
commitEdit(task, draftText, draftTags) ==
  [text |-> IF trim(draftText) # <<>> THEN trim(draftText) ELSE task.text,
   tags |-> trimAndFilter(splitOn(draftTags, {","}, FALSE))]

\* editTask(listId, taskId, patch)
editTask(listId, taskId, patch) ==
  Result([i \in 1..Len(lists) |->
            IF lists[i].id = listId
            THEN [lists[i] EXCEPT !.tasks =
                    [j \in 1..Len(@) |->
                       IF @[j].id = taskId
                       THEN [@[j] EXCEPT !.text = patch.text, !.tags = patch.tags]
                       ELSE @[j]]]
            ELSE lists[i]],
         activeListId, nextUid, FALSE)

(* ------------------------------------------------------------------ *)
(* Inputs                                                             *)
(* ------------------------------------------------------------------ *)
IngestModes   == {"single", "group"}
IngestTargets == {"auto", "inbox", "today", "active"}
Variants      == {"App", "part_000"}

\* text/plain payloads of a paste or drop
TextBlank       == <<" ">>
TextOneLine     == <<"a">>
TextTwoHeadings == <<":", "\n", "a", "\n", " ", ":", "\n", "b">>
TextTwoItems    == <<"a", "\n", "b">>
PasteTexts == {<<>>, TextBlank, TextOneLine, TextTwoHeadings}
\* texts with items, for the router
TextHeadingsXY  == <<"x", ":", "\n", "a", "\n", "y", ":", "\n", "b">>
RouteTexts == {TextOneLine, TextTwoItems, TextTwoHeadings, TextHeadingsXY}
\* texts for the parser: headings (ASCII and full-width colon, upper and lower
\* case, CRLF), bullet and number markers, markers without white space, blank lines
\* drafts of the edit form of a task, and texts typed into the search box
DraftTexts == {<<"a">>, <<"x", " ", "#", "A">>}
DraftTags  == {<<>>, <<"a", ",", " ", "B", ",">>}
Queries    == {<<>>, <<" ">>, <<"a">>, <<"#", "A">>, <<"x", "\t", " ", "#", "b">>, <<"#", "x">>}

TextBullets  == <<"x", ":", "\n", "-", " ", "a", "\n", "b">>
TextNumbered == <<"a", "\r", "\n", "\n", " ", "X", "FWCOLON", " ", "\n", "1", "2", ".", " ", " ", "b">>
TextMarkers  == <<"-", "a", "\n", "*", "\t", "b", "\n", "BULLET", " ", "a", "\n", "1", ".", "b">>
\* a line with a marker in front and a colon at the end, and bare markers
TextMarkedHeading == <<"-", " ", "a", ":", "\n", "-", " ", "\n", "1", ".">>
ParseTexts == {TextBullets, TextNumbered, TextMarkers, TextMarkedHeading}

\* texts for the comparison of the two source files: an item, and a heading
\* that names Today in lower case
TextTodayHeading == <<"t", "o", "d", "a", "y", ":", "\n", "b">>
TwinTexts == {TextOneLine, TextTodayHeading}

(* ------------------------------------------------------------------ *)
(* Rendering                                                          *)
(* ------------------------------------------------------------------ *)
\* the component without the effect
ensureActiveMissing(ls, act) == act

\* useEffect: if (!lists.find((l) => l.id === activeListId) && lists[0]) setActiveListId(lists[0].id)
ensureActive(ls, act) == IF findList(ls, act) = 0 /\ Len(ls) > 0 THEN ls[1].id ELSE act

\* React commits the state (ls, act): the component renders, its effects run, and
\* the handlers of the new render close over the committed values.
Commit(ls, act) ==
  /\ crashed' = FALSE
  /\ lists' = ls
  /\ activeListId' = ensureActive(ls, act)
  /\ rLists' = ls
  /\ rActiveListId' = ensureActive(ls, act)

\* How a specification runs the component:
\*   sync      - React commits after every event, before the next one is delivered
\*   maxUid    - the last value uid() may return
\*   maxTimers - the number of timeouts that may be pending
\*   gesture   - whether the list a gesture started from is kept in `start`
Run(sync, maxUid, maxTimers, gesture) ==
  [sync |-> sync, maxUid |-> maxUid, maxTimers |-> maxTimers, gesture |-> gesture]

\* A handler ran and left r; e describes the event.
Deliver(c, result, e) ==
  \E r \in {result} :
  /\ ~crashed
  /\ r.nextUid <= c.maxUid + 1
  /\ nextUid' = r.nextUid
  /\ ev' = e
  /\ IF r.threw \/ hasUndefined(r.lists)
     THEN \* an updater threw, or left undefined in a task slot and the render that
          \* follows throws on t.id: React unmounts the tree
          /\ crashed' = TRUE
          /\ lists' = r.lists /\ activeListId' = r.activeListId
          /\ UNCHANGED <<rLists, rActiveListId>>
     ELSE IF c.sync THEN Commit(r.lists, r.activeListId)
     ELSE /\ lists' = r.lists /\ activeListId' = r.activeListId
          /\ UNCHANGED <<rLists, rActiveListId, crashed>>

\* the scheduled render of queued updates
Render ==
  /\ ~crashed
  /\ <<rLists, rActiveListId>> # <<lists, ensureActive(lists, activeListId)>>
  /\ Commit(lists, activeListId)
  /\ ev' = [op |-> "render"]
  /\ UNCHANGED <<search, deleting, timers, lastResetDate, nextUid, variant, drag, start>>

(* ------------------------------------------------------------------ *)
(* Events                                                             *)
(* ------------------------------------------------------------------ *)
\* how a drag event resolved against the closure of the last render
dragCase(activeId, overId) ==
  IF overId = Null THEN "nowhere"
  ELSE IF findListIdByTask(activeId) = Null \/ resolveTo(overId) = Null THEN "unresolved"
  ELSE IF findListIdByTask(activeId) = resolveTo(overId) THEN "same"
  ELSE "cross"

\* a drag event as the handler saw it: the dragged task, the hover or release
\* target (Null: none), and for a cross-list event the lists the handler
\* resolved as fromListId and toListId
dragEvent(op, activeId, overId) ==
  LET case == dragCase(activeId, overId)
  IN  [op |-> op, case |-> case, taskId |-> activeId, over |-> overId,
       from |-> IF case = "cross" THEN findListIdByTask(activeId) ELSE Null,
       to   |-> IF case = "cross" THEN resolveTo(overId) ELSE Null]

\* the task listId/taskId is on screen with its buttons
onScreen(listId, taskId) ==
  findList(rLists, listId) # 0 /\ hasTask(filteredLists[findList(rLists, listId)], taskId)

AddList(c, name) ==
  /\ Deliver(c, addList(name), [op |-> "addList"])
  /\ UNCHANGED <<search, deleting, timers, lastResetDate, variant, drag, start>>

RemoveList(c, id) ==
  /\ id \in listIds
  /\ Deliver(c, removeList(id),
             [op |-> "removeList", id |-> id, wasActive |-> (rActiveListId = id),
              wasFirst |-> (rLists[1].id = id)])
  /\ UNCHANGED <<search, deleting, timers, lastResetDate, variant, drag, start>>

\* onClick={() => setActiveListId(l.id)} of a list in the sidebar
SelectList(c, id) ==
  /\ id \in listIds
  /\ Deliver(c, Result(lists, id, nextUid, FALSE), [op |-> "selectList"])
  /\ UNCHANGED <<search, deleting, timers, lastResetDate, variant, drag, start>>

\* onChange={() => toggleListReset(l.id)} of the auto-reset checkbox of a list
ToggleListReset(c, id) ==
  /\ id \in listIds
  /\ Deliver(c, toggleListReset(id), [op |-> "toggleListReset"])
  /\ UNCHANGED <<search, deleting, timers, lastResetDate, variant, drag, start>>

\* the edit form of a task on screen is committed
EditTask(c, listId, taskId, draftText, draftTags) ==
  /\ onScreen(listId, taskId)
  /\ \E task \in {rLists[findList(rLists, listId)].tasks[findIndex(rLists[findList(rLists, listId)].tasks, taskId) + 1]} :
        Deliver(c, editTask(listId, taskId, commitEdit(task, draftText, draftTags)),
                [op |-> "editTask"])
  /\ UNCHANGED <<search, deleting, timers, lastResetDate, variant, drag, start>>

\* onChange={(e) => setSearch(e.target.value)}: with a token in the query the
\* grid is rendered without the DndContext, and a gesture under way is gone
SetSearch(query) ==
  /\ ~crashed
  /\ query # search
  /\ search' = query
  /\ drag' = IF Len(tokensOf(query)) > 0 THEN Null ELSE drag
  /\ start' = IF Len(tokensOf(query)) > 0 THEN Null ELSE start
  /\ ev' = [op |-> "setSearch"]
  /\ UNCHANGED <<lists, activeListId, deleting, timers, lastResetDate, nextUid,
                 variant, rLists, rActiveListId, crashed>>

AddTask(c, text) ==
  /\ Deliver(c, addTask(text), [op |-> "addTask", blank |-> (trim(text) = <<>>), text |-> text])
  /\ UNCHANGED <<search, deleting, timers, lastResetDate, variant, drag, start>>

ToggleTask(c, listId, taskId) ==
  /\ onScreen(listId, taskId)
  /\ Deliver(c, toggleTask(listId, taskId), [op |-> "toggleTask"])
  /\ UNCHANGED <<search, deleting, timers, lastResetDate, variant, drag, start>>

ArchiveCompleted(c) ==
  /\ activeList # Null
  /\ Deliver(c, archiveCompleted(activeList), [op |-> "archiveCompleted"])
  /\ UNCHANGED <<search, deleting, timers, lastResetDate, variant, drag, start>>

\* deleteTask(listId, taskId): mark, and hand the removal to setTimeout(..., 180)
DeleteTask(c, listId, taskId) ==
  /\ onScreen(listId, taskId)
  /\ Len(timers) < c.maxTimers
  /\ deleting' = deleting \cup {taskId}
  /\ timers' = Append(timers, [listId |-> listId, taskId |-> taskId])
  /\ Deliver(c, Same, [op |-> "deleteTask", taskId |-> taskId])
  /\ UNCHANGED <<search, lastResetDate, variant, drag, start>>

\* the timeout whose callback leaves the mark of the task in `deleting`
TimeoutKeepsMark(c) ==
  /\ timers # <<>>
  /\ Deliver(c, timeoutCallback(Head(timers).listId, Head(timers).taskId),
             [op |-> "timeout", taskId |-> Head(timers).taskId,
              marked |-> (Head(timers).taskId \in deleting)])
  /\ timers' = Tail(timers)
  /\ UNCHANGED <<search, deleting, lastResetDate, variant, drag, start>>

\* the oldest pending timeout fires (all have the same delay); marked: the task
\* was still in `deleting`, that is, no earlier timeout of it has fired since it
\* was last deleted
Timeout(c) ==
  /\ timers # <<>>
  /\ Deliver(c, timeoutCallback(Head(timers).listId, Head(timers).taskId),
             [op |-> "timeout", taskId |-> Head(timers).taskId,
              marked |-> (Head(timers).taskId \in deleting)])
  /\ deleting' = deleting \ {Head(timers).taskId}
  /\ timers' = Tail(timers)
  /\ UNCHANGED <<search, lastResetDate, variant, drag, start>>

\* the wall clock passes midnight: the stored date is no longer today
Midnight ==
  /\ ~crashed
  /\ isToday(lastResetDate)
  /\ lastResetDate' = "past"
  /\ ev' = [op |-> "midnight"]
  /\ UNCHANGED <<search, lists, activeListId, deleting, timers, nextUid, variant,
                 rLists, rActiveListId, crashed, drag, start>>

\* setInterval(resetIfNeeded, 60 * 1000) fires; saveLastResetDate(todayIso) when it resets
Tick(c) ==
  /\ Deliver(c, resetIfNeeded, [op |-> "tick", reset |-> ~isToday(lastResetDate)])
  /\ lastResetDate' = "today"
  /\ UNCHANGED <<search, deleting, timers, variant, drag, start>>

\* the library starts a gesture on a rendered task
DragStart(c, taskId) ==
  /\ ~crashed
  /\ ~dndDisabled
  /\ drag = Null
  /\ taskId \in TaskIds(rLists)
  /\ drag' = taskId
  /\ start' = IF c.gesture THEN rLists[findList(rLists, findListIdByTask(taskId))] ELSE Null
  /\ ev' = [op |-> "dragStart"]
  /\ UNCHANGED <<search, lists, activeListId, deleting, timers, lastResetDate, nextUid,
                 variant, rLists, rActiveListId, crashed>>

\* onDragOver: live-preview event. over is Null, or the id of a list or task
\* that is or was in the workspace (a droppable may be gone by the time the
\* handler looks it up).
DragOver(c, overId) ==
  /\ drag # Null
  /\ ~dndDisabled
  /\ overId \in 0..(nextUid - 1)
  /\ Deliver(c, handleDragOver(drag, overId), dragEvent("dragOver", drag, overId))
  /\ UNCHANGED <<search, deleting, timers, lastResetDate, variant, drag, start>>

\* onDragEnd: commit event
DragEnd(c, overId) ==
  /\ drag # Null
  /\ ~dndDisabled
  /\ overId \in 0..(nextUid - 1)
  /\ Deliver(c, handleDragEnd(drag, overId), dragEvent("dragEnd", drag, overId))
  /\ drag' = Null
  /\ start' = Null
  /\ UNCHANGED <<search, deleting, timers, lastResetDate, variant>>

\* onPaste / onDrop of the content section
Paste(c, text, mode, target) ==
  /\ \E r \in {handlePaste(text, mode, target)} :
        Deliver(c, r, [op |-> "paste", text |-> text, mode |-> mode, target |-> target,
                       parsed |-> r.parsed])
  /\ UNCHANGED <<search, deleting, timers, lastResetDate, variant, drag, start>>

\* the events the rendered workspace can receive: ingestion of a text, and the
\* list, task and drag operations on the lists and tasks of the last render
TwinInputs ==
  {Input("paste", text, mode, target, 0, 0) :
      text \in TwinTexts, mode \in IngestModes, target \in IngestTargets}
  \cup {Input("addList", <<>>, "", "", 0, 0), Input("addTask", <<"a">>, "", "", 0, 0),
        Input("tick", <<>>, "", "", 0, 0)}
  \cup {Input("removeList", <<>>, "", "", id, 0) : id \in listIds}
  \cup {Input("archiveCompleted", <<>>, "", "", id, 0) : id \in listIds}
  \cup {Input(op, <<>>, "", "", findListIdByTask(t), t) :
          op \in {"toggleTask", "timeout"}, t \in TaskIds(rLists)}
  \cup {Input(op, <<>>, "", "", t, o) :
          op \in {"dragOver", "dragEnd"},
          t \in TaskIds(rLists), o \in {0} \cup listIds \cup TaskIds(rLists)}

\* The two source files keep the workspace under the same localStorage keys and
\* in the same state variables: the workspace at hand is taken over by the other
\* source file, event e being the next one it receives; result is what the
\* handler of e leaves in the source file that had the workspace so far.
HandOver(e) ==
  /\ ~crashed
  /\ e \in TwinInputs
  /\ variant' = CHOOSE v \in Variants : v # variant
  /\ ev' = [op |-> "handOver", input |-> e, result |-> handlerOf(e)]
  /\ UNCHANGED <<search, lists, activeListId, deleting, timers, lastResetDate, nextUid,
                 rLists, rActiveListId, crashed, drag, start>>

(* ------------------------------------------------------------------ *)
(* Specifications                                                     *)
(* ------------------------------------------------------------------ *)
\* what localStorage holds under "todo.multilists.v2" when the component is
\* constructed: nothing (absent), an item that cannot be read (denied: getItem
\* throws), a text that is no JSON (garbage), the JSON null, or the JSON of a
\* sequence of lists (json)
StoredWorkspaces ==
  {<<>>,
   <<[id |-> 2, name |-> <<"x">>, tasks |-> <<makeTask(1, <<"a">>)>>, autoResetMidnight |-> TRUE]>>,
   <<NewList(2, Today, TRUE), NewList(1, <<"x">>, FALSE)>>}
Storage ==
  {[kind |-> k, value |-> <<>>] : k \in {"absent", "denied", "garbage", "jsonNull"}}
  \cup {[kind |-> "json", value |-> v] : v \in StoredWorkspaces}

\* what loadLists returns (value; isNull: it is null) or that it threw
Loaded(value, isNull, threw) == [value |-> value, isNull |-> isNull, threw |-> threw]

\* loadLists without its try / catch
loadListsNoCatch(stored) ==
  CASE stored.kind = "json"     -> Loaded(stored.value, FALSE, FALSE)
    [] stored.kind = "jsonNull" -> Loaded(<<>>, TRUE, FALSE)
    [] stored.kind = "absent"   -> Loaded(<<>>, FALSE, FALSE)
    [] OTHER                    -> Loaded(<<>>, FALSE, TRUE)

\* try { raw = getItem(...); return raw ? JSON.parse(raw) : [] } catch { return [] }
loadLists(stored) ==
  CASE stored.kind = "json"     -> Loaded(stored.value, FALSE, FALSE)
    [] stored.kind = "jsonNull" -> Loaded(<<>>, TRUE, FALSE)
    [] OTHER                    -> Loaded(<<>>, FALSE, FALSE)

\* the initializer of useState<ListsState>: initial.length throws on null
initialLists(stored) ==
  With(loadLists(stored), LAMBDA initial :
    IF initial.threw \/ initial.isNull THEN [threw |-> TRUE, lists |-> <<>>]
    ELSE IF Len(initial.value) > 0 THEN [threw |-> FALSE, lists |-> initial.value]
    ELSE [threw |-> FALSE, lists |-> <<NewList(1, Inbox, FALSE), NewList(2, Today, TRUE)>>])

\* the component is constructed over the stored item: the initializers of
\* lists and activeListId (lists[0]?.id || "") have run, no effect has yet
Construct(stored) ==
  /\ \E r \in {initialLists(stored)} :
        /\ lists = r.lists
        /\ crashed = r.threw
        /\ activeListId = IF Len(r.lists) > 0 THEN r.lists[1].id ELSE Null
  /\ rLists = lists
  /\ rActiveListId = activeListId
  /\ deleting = {}
  /\ timers = <<>>
  /\ nextUid = 3
  /\ drag = Null
  /\ start = Null
  /\ search = <<>>
  /\ ev = [op |-> "mount", stored |-> stored]

\* the workspace after mount: the bootstrap of useState, resetIfNeeded already run
Bootstrap ==
  /\ lists = <<NewList(1, Inbox, FALSE), NewList(2, Today, TRUE)>>
  /\ activeListId = 1
  /\ deleting = {}
  /\ timers = <<>>
  /\ lastResetDate = "today"
  /\ nextUid = 3
  /\ rLists = lists
  /\ rActiveListId = 1
  /\ crashed = FALSE
  /\ drag = Null
  /\ start = Null
  /\ search = <<>>
  /\ ev = [op |-> "mount"]

\* Spec: every operation of the component, each event followed by React's commit
Whole == Run(TRUE, MaxUid, MaxTimers, FALSE)

Init == Bootstrap /\ variant = "App"

Next ==
  \/ AddList(Whole, <<>>)
  \/ \E id \in 1..MaxUid : RemoveList(Whole, id)
  \/ \E id \in 1..MaxUid : SelectList(Whole, id)
  \/ AddTask(Whole, <<" ", "a">>)
  \/ \E l, t \in 1..MaxUid : ToggleTask(Whole, l, t)
  \/ ArchiveCompleted(Whole)
  \/ \E l, t \in 1..MaxUid : DeleteTask(Whole, l, t)
  \/ Timeout(Whole)
  \/ Midnight
  \/ Tick(Whole)
  \/ \E t \in 1..MaxUid : DragStart(Whole, t)
  \/ \E o \in 0..MaxUid : DragOver(Whole, o)
  \/ \E o \in 0..MaxUid : DragEnd(Whole, o)
  \/ \E target \in IngestTargets : Paste(Whole, TextOneLine, "single", target)

Spec == Init /\ [][Next]_vars

\* SpecIngest: removal of lists and ingestion, in both source variants
Ingest == Run(TRUE, MaxIngestUid, 0, FALSE)

InitIngest == Bootstrap /\ variant \in Variants

NextIngest ==
  \/ \E id \in 1..MaxIngestUid : RemoveList(Ingest, id)
  \/ \E text \in PasteTexts, mode \in IngestModes, target \in IngestTargets :
        Paste(Ingest, text, mode, target)

SpecIngest == InitIngest /\ [][NextIngest]_vars

\* SpecRoute: SpecIngest on texts that hold items, one of them with two items
\* for one list
Route == Run(TRUE, MaxRouteUid, 0, FALSE)

NextRoute ==
  \/ \E id \in 1..MaxRouteUid : RemoveList(Route, id)
  \/ \E text \in RouteTexts, mode \in IngestModes, target \in IngestTargets :
        Paste(Route, text, mode, target)

SpecRoute == InitIngest /\ [][NextRoute]_vars

\* SpecReset: tasks added to any list, the auto-reset flag of any list switched,
\* the day changing and the reset timer firing
Reset == Run(TRUE, MaxResetUid, 0, FALSE)

NextReset ==
  \/ \E id \in 1..MaxResetUid : SelectList(Reset, id)
  \/ \E id \in 1..MaxResetUid : ToggleListReset(Reset, id)
  \/ AddTask(Reset, <<" ", "a">>)
  \/ Midnight
  \/ Tick(Reset)

SpecReset == Init /\ [][NextReset]_vars

\* SpecSearch: tasks added and edited, the search box typed into, and drag
\* gestures
Search == Run(TRUE, MaxSearchUid, 0, FALSE)

NextSearch ==
  \/ AddTask(Search, <<"a", "b">>)
  \/ \E l, t \in 1..MaxSearchUid, draftText \in DraftTexts, draftTags \in DraftTags :
        EditTask(Search, l, t, draftText, draftTags)
  \/ \E query \in Queries : SetSearch(query)
  \/ \E t \in 1..MaxSearchUid : DragStart(Search, t)
  \/ \E o \in 0..MaxSearchUid : DragOver(Search, o)
  \/ \E o \in 0..MaxSearchUid : DragEnd(Search, o)

SpecSearch == Init /\ [][NextSearch]_vars

\* SpecBoot: construction over any stored item on any date; the effect that
\* runs resetIfNeeded comes first, then the timer and the events
Boot == Run(TRUE, MaxBootUid, 0, FALSE)

InitBoot ==
  /\ \E stored \in Storage : Construct(stored)
  /\ lastResetDate \in {"today", "past"}
  /\ variant = "App"

NextBoot ==
  \/ Tick(Boot)
  \/ ev.op # "mount" /\ Midnight
  \/ ev.op # "mount" /\ AddTask(Boot, <<"a">>)
  \/ ev.op # "mount" /\ \E id \in 1..MaxBootUid : SelectList(Boot, id)
  \/ ev.op # "mount" /\ \E id \in 1..MaxBootUid : RemoveList(Boot, id)

SpecBoot == InitBoot /\ [][NextBoot]_vars

\* SpecArchive: tasks added to any list, completed or not, and archived
Archive == Run(TRUE, MaxArchiveUid, 0, FALSE)

NextArchive ==
  \/ AddTask(Archive, <<"a">>)
  \/ \E id \in 1..MaxArchiveUid : SelectList(Archive, id)
  \/ \E l, t \in 1..MaxArchiveUid : ToggleTask(Archive, l, t)
  \/ ArchiveCompleted(Archive)

SpecArchive == Init /\ [][NextArchive]_vars

\* SpecAdd: tasks added, with a text or a blank one, to any list or to none
Add == Run(TRUE, MaxAddUid, 0, FALSE)

\* what the input of the add row holds
NewTaskTexts == {<<>>, <<" ", "\t">>, <<" ", "a", " ">>, <<"b">>}

NextAdd ==
  \/ \E text \in NewTaskTexts : AddTask(Add, text)
  \/ \E id \in 1..MaxAddUid : SelectList(Add, id)
  \/ \E id \in 1..MaxAddUid : RemoveList(Add, id)

SpecAdd == Init /\ [][NextAdd]_vars

\* SpecItems: every operation on tasks
Items == Run(TRUE, MaxItemsUid, MaxItemsTimers, FALSE)

NextItems ==
  \/ AddTask(Items, <<"a">>)
  \/ \E l, t \in 1..MaxItemsUid : ToggleTask(Items, l, t)
  \/ \E l, t \in 1..MaxItemsUid : EditTask(Items, l, t, <<"b">>, <<"a", ",", "b">>)
  \/ \E l, t \in 1..MaxItemsUid : DeleteTask(Items, l, t)
  \/ Timeout(Items)
  \/ ArchiveCompleted(Items)
  \/ Midnight
  \/ Tick(Items)
  \/ \E t \in 1..MaxItemsUid : DragStart(Items, t)
  \/ \E o \in 0..MaxItemsUid : DragOver(Items, o)
  \/ \E o \in 0..MaxItemsUid : DragEnd(Items, o)

SpecItems == Init /\ [][NextItems]_vars

\* LiveFade: tasks added and deleted, also twice and from lists that are then
\* removed; the event loop runs every callback handed to setTimeout
Fade == Run(TRUE, MaxFadeUid, MaxFadeTimers, FALSE)

NextFade ==
  \/ AddTask(Fade, <<"a">>)
  \/ \E id \in 1..MaxFadeUid : SelectList(Fade, id)
  \/ \E id \in 1..MaxFadeUid : RemoveList(Fade, id)
  \/ \E l, t \in 1..MaxFadeUid : DeleteTask(Fade, l, t)
  \/ Timeout(Fade)

LiveFade == Init /\ [][NextFade]_vars /\ WF_vars(Timeout(Fade))

\* SpecParse: ingestion of texts with headings and markers, in every mode and
\* for every target, with any list active
Parse == Run(TRUE, MaxParseUid, 0, FALSE)

NextParse ==
  \/ \E id \in 1..MaxParseUid : RemoveList(Parse, id)
  \/ \E id \in 1..MaxParseUid : SelectList(Parse, id)
  \/ \E text \in ParseTexts, mode \in IngestModes, target \in IngestTargets :
        Paste(Parse, text, mode, target)

SpecParse == InitIngest /\ [][NextParse]_vars

\* SpecTwin: the list, task and ingestion operations in both source variants;
\* at any point the workspace is handed to the other one, which ends the run
Twin == Run(TRUE, MaxTwinUid, 0, FALSE)

NextTwin ==
  \/ ev.op # "handOver" /\ \E id \in 1..MaxTwinUid : RemoveList(Twin, id)
  \/ ev.op # "handOver" /\ \E id \in 1..MaxTwinUid : SelectList(Twin, id)
  \/ ev.op # "handOver" /\ \E l, t \in 1..MaxTwinUid : ToggleTask(Twin, l, t)
  \/ ev.op # "handOver" /\ Midnight
  \/ ev.op # "handOver" /\
        \E text \in TwinTexts, mode \in IngestModes, target \in IngestTargets :
           Paste(Twin, text, mode, target)
  \/ ev.op # "handOver" /\ \E e \in TwinInputs : HandOver(e)

SpecTwin == InitIngest /\ [][NextTwin]_vars

\* SpecDrag: drag gestures and deferred deletes on the tasks of the workspace
Dragging == Run(TRUE, MaxDragUid, MaxDragTimers, TRUE)

DragEvents(c) ==
  \/ \E id \in 1..MaxDragUid : SelectList(c, id)
  \/ AddTask(c, <<" ", "a">>)
  \/ \E t \in 1..MaxDragUid : DragStart(c, t)
  \/ \E o \in 0..MaxDragUid : DragOver(c, o)
  \/ \E o \in 0..MaxDragUid : DragEnd(c, o)

NextDrag ==
  \/ DragEvents(Dragging)
  \/ \E l, t \in 1..MaxDragUid : DeleteTask(Dragging, l, t)
  \/ Timeout(Dragging)

SpecDrag == Init /\ [][NextDrag]_vars

\* SpecDeferred: the drag events, delivered while earlier updates may still be
\* queued (React batches updates made outside its own event handlers and renders
\* them in a later task)
Deferred == Run(FALSE, MaxDragUid, 0, FALSE)

NextDeferred == DragEvents(Deferred) \/ Render

SpecDeferred == Init /\ [][NextDeferred]_vars

\* SpecLate: as SpecDrag, except that the update a timeout queues is rendered in
\* a later task (setTimeout callbacks run outside React's event handlers), so
\* the next event may be handled by the handlers of the render before it
NextLate ==
  \/ DragEvents(Dragging)
  \/ \E l, t \in 1..MaxDragUid : DeleteTask(Dragging, l, t)
  \/ Timeout(Deferred)
  \/ Render

SpecLate == Init /\ [][NextLate]_vars

\* SpecTwice: SpecDrag on the tasks of Spec, with room for a second pending
\* timeout: the delete button of a fading task can be clicked again
Twice == Run(TRUE, MaxUid, MaxTwiceTimers, FALSE)

NextTwice ==
  \/ DragEvents(Twice)
  \/ \E l, t \in 1..MaxUid : DeleteTask(Twice, l, t)
  \/ Timeout(Twice)

SpecTwice == Init /\ [][NextTwice]_vars

(* ------------------------------------------------------------------ *)
(* Properties                                                         *)
(* ------------------------------------------------------------------ *)
\* the positions <<list, index>> of the workspace ls that hold the task id
Positions(ls, id) ==
  UNION {{<<i, j>> : j \in {k \in 1..Len(ls[i].tasks) : ls[i].tasks[k].id = id}} :
           i \in 1..Len(ls)}

\* the list ids of ls whose sequence holds the task id
Holders(ls, id) == {ls[i].id : i \in {k \in 1..Len(ls) : hasTask(ls[k], id)}}

\* C1 (uniqueness): in every workspace reached by add task, ingest, live-preview
\* and commit drag events, delete, archive, auto-reset, add/remove list, every
\* task id that occurs in the workspace occurs at exactly one position of
\* exactly one list.
C1_ItemIdsUnique ==
  \A id \in TaskIds(lists) \ {Null} : Cardinality(Positions(lists, id)) = 1

\* C1 witness: a live-preview event has just moved a task across lists; it now
\* sits in the destination only.
C1_MovedAcross ==
  /\ ev.op = "dragOver" /\ ev.case = "cross"
  /\ Holders(lists, ev.taskId) = {ev.to}

\* C2 (live preview in arrival order): whenever handleDragOver has applied a
\* cross-list move, the dragged task was still in the list resolved as the
\* source, so afterwards no slot holds a missing (undefined) task and the
\* dragged task is held by the destination list and by no other list.
C2_PreviewMovesTheItem ==
  (ev.op = "dragOver" /\ ev.case = "cross") =>
     /\ ~hasUndefined(lists)
     /\ Holders(lists, ev.taskId) = {ev.to}

\* C2 divergence: a cross-list live-preview event has put undefined into a list
C2_UndefinedInserted ==
  ev.op = "dragOver" /\ ev.case = "cross" /\ hasUndefined(lists)

\* C3 (deferred delete): deleteTask marks the task pending at once and leaves it
\* in its list; when its timeout has fired, the task is in no list of the
\* workspace, whatever happened to it during the delay.
C3_DeletedAfterDelay ==
  /\ ev.op = "deleteTask" => ev.taskId \in deleting /\ ev.taskId \in TaskIds(lists)
  /\ ev.op = "timeout" => ev.taskId \notin TaskIds(lists)

\* C3 divergence: the timeout of a task has fired and the task is still in a list
C3_SurvivedItsDelete ==
  ev.op = "timeout" /\ ev.taskId \in TaskIds(lists)

\* C4 (cross-list commit finality): after a commit event whose resolved source
\* list differs from its resolved destination list, the dragged task is in the
\* destination list and absent from the source list.
C4_CommitAcrossIsFinal ==
  (ev.op = "dragEnd" /\ ev.case = "cross") => Holders(lists, ev.taskId) = {ev.to}

\* C4 divergence: after such a commit event the task is still in the source list
C4_CommitLeftItInSource ==
  ev.op = "dragEnd" /\ ev.case = "cross" /\ Holders(lists, ev.taskId) = {ev.from}

\* the positions of the lists of ls named name, compared as findListByName compares
Named(ls, name) ==
  {i \in 1..Len(ls) : toLowerCase(trim(ls[i].name)) = toLowerCase(trim(name))}

\* C5 (get-or-create within one ingestion): when group-mode text with two empty
\* headings, each followed by an item, is ingested and no list named Untitled
\* existed before, exactly one list named Untitled exists afterwards and it
\* holds the items of both headings.
C5_OneContainerPerHeading ==
  [][(/\ ev'.op = "paste" /\ ev'.text = TextTwoHeadings
      /\ ev'.mode = "group" /\ ev'.target = "auto"
      /\ Named(lists, Untitled) = {})
     => /\ Cardinality(Named(lists', Untitled)) = 1
        /\ \A i \in Named(lists', Untitled) :
              {lists'[i].tasks[j].text : j \in 1..Len(lists'[i].tasks)} = {<<"a">>, <<"b">>}]_vars

\* C5 divergence: one ingestion has left two lists named Untitled
C5_TwoUntitled ==
  /\ ev.op = "paste" /\ ev.text = TextTwoHeadings
  /\ Cardinality(Named(lists, Untitled)) = 2

\* C6 (blank ingestion): ingesting empty or white-space-only text, in every mode
\* and for every target, changes nothing: it creates no list, adds no task and
\* leaves the active list id as it was.
C6_BlankIngestChangesNothing ==
  [][(ev'.op = "paste" /\ linesOf(ev'.text) = <<>>)
     => lists' = lists /\ activeListId' = activeListId]_vars

\* C6 divergence: white-space-only text has been ingested and a list was created
C6_BlankIngestCreatedAList ==
  /\ ev.op = "paste" /\ ev.text = TextBlank
  /\ \E i \in 1..Len(lists) : lists[i].id = nextUid - 1

\* the ids of the tasks a step added to the workspace
AddedTaskIds == TaskIds(lists') \ TaskIds(lists)
\* the positions of the lists a step added to the workspace
AddedLists == {i \in 1..Len(lists') : lists'[i].id \notin ListIds(lists)}

\* C7 (target inbox): after ingesting text with at least one item with target
\* inbox, the active list id names the list that received the items, and the
\* ingestion created at most one list named Inbox, none if one existed.
C7_InboxTargetSwitchesToReceiver ==
  [][(ev'.op = "paste" /\ ev'.target = "inbox" /\ linesOf(ev'.text) # <<>>)
     => /\ AddedTaskIds # {}
        /\ \A id \in AddedTaskIds : Holders(lists', id) = {activeListId'}
        /\ Cardinality(AddedLists \cap Named(lists', Inbox))
             <= (IF Named(lists, Inbox) = {} THEN 1 ELSE 0)]_vars

\* C7 divergence: after an ingestion with target inbox the active list is empty
\* and another list named Inbox holds the items
C7_ActiveInboxIsEmpty ==
  /\ ev.op = "paste" /\ ev.target = "inbox" /\ linesOf(ev.text) # <<>>
  /\ Cardinality(Named(lists, Inbox)) = 2
  /\ \E i \in Named(lists, Inbox) : lists[i].id = activeListId /\ lists[i].tasks = <<>>

\* C8 (target today): ingesting text with at least one item with target today
\* creates no list named Today; if none existed the active list id is
\* unchanged, and if one existed the items go to it and it becomes active.
\* In both source variants.
C8_TodayTargetNeverFabricates ==
  [][(ev'.op = "paste" /\ ev'.target = "today" /\ linesOf(ev'.text) # <<>>)
     => IF Named(lists, Today) = {}
        THEN Named(lists', Today) = {} /\ activeListId' = activeListId
        ELSE /\ AddedLists \cap Named(lists', Today) = {}
             /\ activeListId' \in {lists'[i].id : i \in Named(lists', Today)}
             /\ \A id \in AddedTaskIds : Holders(lists', id) = {activeListId'}]_vars

\* C8 divergence: src/src/App.tsx has ingested with target today when no list
\* named Today existed, and lists named Today exist now
C8_TodayFabricated ==
  /\ variant = "App"
  /\ ev.op = "paste" /\ ev.target = "today"
  /\ \E i \in Named(lists, Today) : lists[i].id > 2

\* C9 (active reference): in every state in which at least one list exists, the
\* active list id is the id of a list of the workspace.
C9_ActiveListExists ==
  Len(lists) > 0 => activeListId \in ListIds(lists)

\* C9 witness: the active list has just been removed, lists remain, and the
\* active list id names one of them.
C9_ActiveWasRemoved ==
  /\ ev.op = "removeList" /\ ev.wasActive
  /\ lists # <<>> /\ activeListId \in ListIds(lists)

\* C10 (removal of the active list): when removeList removes the active list and
\* a list remains, the active list id becomes the id of the first remaining
\* list; when it removes another list, the active list id is unchanged.
C10_RemoveListFallsBackToFirst ==
  [][ev'.op = "removeList"
     => IF ev'.wasActive
        THEN lists' # <<>> => activeListId' = lists'[1].id
        ELSE activeListId' = activeListId]_vars

\* C10 witness: the removed list was the active one and the first one, and the
\* active list id is now the id of the list that was second.
C10_RemovedActiveFirst ==
  /\ ev.op = "removeList" /\ ev.wasActive /\ ev.wasFirst
  /\ lists # <<>> /\ activeListId = lists[1].id

\* how many slots of the workspace ls hold the task id (Null: an undefined slot)
Occurrences(ls, id) == Cardinality(Positions(ls, id))

\* C11 (conservation): a live-preview event that moves across lists and a commit
\* event that reorders within one list leave the number of task slots of the
\* workspace and the multiset of task ids as they were: every id occupies as
\* many slots after the event as before.
C11_DragConservesItems ==
  [][(\/ ev'.op = "dragOver" /\ ev'.case = "cross"
      \/ ev'.op = "dragEnd" /\ ev'.case = "same")
     => \A id \in TaskIds(lists) \cup TaskIds(lists') :
           Occurrences(lists', id) = Occurrences(lists, id)]_vars

\* C11 divergence: a cross-list live-preview event has left one slot more than
\* the tasks it found: the dragged task once, and an undefined slot
C11_SlotAdded ==
  /\ ev.op = "dragOver" /\ ev.case = "cross"
  /\ Occurrences(lists, ev.taskId) = 1
  /\ Occurrences(lists, Null) = 1

\* the id of the list of the workspace ls that holds the task id, Null if none
HolderOf(ls, id) ==
  IF Holders(ls, id) = {} THEN Null
  ELSE ls[CHOOSE i \in 1..Len(ls) :
             hasTask(ls[i], id) /\ \A k \in 1..(i - 1) : ~hasTask(ls[k], id)].id

\* the list of the workspace ls a hover or release target names: the list
\* itself, or the list that holds the named task; Null if neither
TargetOf(ls, overId) == IF overId \in ListIds(ls) THEN overId ELSE HolderOf(ls, overId)

\* the list ls[i] without the task id
Without(l, id) == [l EXCEPT !.tasks = SelectSeq(@, LAMBDA t : t.id # id)]

\* C12 (live-preview placement): when a live-preview event hovers the dragged
\* task over a list other than the one that holds it, the task leaves its list
\* and enters the hovered list: at the end when the target is the list itself,
\* at the index the hovered task had (immediately before it) when the target
\* is a task. The other tasks of both lists keep their order and the other
\* lists are untouched.
C12_PreviewPlacesAtHoveredIndex ==
  [][(/\ ev'.op = "dragOver"
      /\ HolderOf(lists, ev'.taskId) # Null
      /\ TargetOf(lists, ev'.over) # Null
      /\ HolderOf(lists, ev'.taskId) # TargetOf(lists, ev'.over))
     => /\ Len(lists') = Len(lists)
        /\ \A i \in 1..Len(lists) :
              IF lists[i].id = HolderOf(lists, ev'.taskId)
              THEN lists'[i] = Without(lists[i], ev'.taskId)
              ELSE IF lists[i].id = TargetOf(lists, ev'.over)
              THEN /\ Without(lists'[i], ev'.taskId) = lists[i]
                   /\ findIndex(lists'[i].tasks, ev'.taskId)
                        = (IF ev'.over \in ListIds(lists) THEN Len(lists[i].tasks)
                           ELSE findIndex(lists[i].tasks, ev'.over))
              ELSE lists'[i] = lists[i]]_vars

\* C12 divergence: a live-preview event hovered the dragged task over a list
\* that does not hold it, and the task is not in that list afterwards
C12_NotInHoveredList ==
  /\ ev.op = "dragOver" /\ ev.over \in ListIds(lists)
  /\ ev.taskId \in TaskIds(lists)
  /\ Holders(lists, ev.taskId) # {ev.over}

\* C13 (idempotent no-op): a live-preview event whose hover target is the list
\* that holds the dragged task, another task of that list, or the dragged task
\* itself leaves the lists and the active list id exactly as they were.
C13_HoverOwnListChangesNothing ==
  [][(/\ ev'.op = "dragOver"
      /\ HolderOf(lists, ev'.taskId) # Null
      /\ TargetOf(lists, ev'.over) = HolderOf(lists, ev'.taskId))
     => lists' = lists /\ activeListId' = activeListId]_vars

\* C13 divergence: a live-preview event hovered the dragged task over the list
\* that held it, and that list now holds an undefined slot as well
C13_HoverOwnListInserted ==
  /\ ev.op = "dragOver" /\ ev.over \in ListIds(lists)
  /\ Holders(lists, ev.taskId) = {ev.over}
  /\ Holders(lists, Null) = {ev.over}

\* C14 (same-list commit): when a commit event resolves the dragged task and
\* the release target to the same list, the task ends at the index the release
\* target had in that list (the last index when the target is the list
\* itself); nothing changes when that is the index it already has. The other
\* tasks of the list keep their order and the other lists are unchanged.
C14_CommitReordersWithinList ==
  [][(ev'.op = "dragEnd" /\ ev'.case = "same")
     => /\ Len(lists') = Len(lists)
        /\ \A i \in 1..Len(lists) :
              IF lists[i].id = TargetOf(rLists, ev'.over)
              THEN /\ Without(lists'[i], ev'.taskId) = Without(lists[i], ev'.taskId)
                   /\ findIndex(lists'[i].tasks, ev'.taskId)
                        = (IF ev'.over \in ListIds(lists) THEN Len(lists[i].tasks) - 1
                           ELSE findIndex(lists[i].tasks, ev'.over))
              ELSE lists'[i] = lists[i]]_vars

\* C14 divergence: a commit event resolved the dragged task and the list it was
\* released on to the same list, and afterwards that list does not hold the task
C14_ReleasedOnListWithoutIt ==
  /\ ev.op = "dragEnd" /\ ev.case = "same" /\ ev.over \in ListIds(lists)
  /\ ev.taskId \in TaskIds(lists)
  /\ ev.over \notin Holders(lists, ev.taskId)

\* C15 (same-list hover during a gesture): whenever a live-preview event of a
\* gesture has resolved its hover target to the list the gesture picked the
\* task from, and the other tasks of that list are the ones it had then, the
\* task is at the index it had when the gesture started: hovering into another
\* list and back leaves it at its original index.
C15_BackAtOriginalIndex ==
  (/\ drag # Null /\ ev.op = "dragOver" /\ ~crashed
   /\ TargetOf(lists, ev.over) = start.id
   /\ \E i \in 1..Len(lists) :
         lists[i].id = start.id /\ Without(lists[i], drag) = Without(start, drag))
  => \E i \in 1..Len(lists) :
        lists[i].id = start.id /\ lists[i].tasks = start.tasks

\* C15 divergence: the gesture picked the task at the second index of its list,
\* hovered into another list and back, and the task is now at the first index
C15_BackAtAnotherIndex ==
  /\ drag # Null /\ ev.op = "dragOver" /\ ev.case = "cross" /\ ev.to = start.id
  /\ findIndex(start.tasks, drag) = 1
  /\ \E i \in 1..Len(lists) :
        lists[i].id = start.id /\ findIndex(lists[i].tasks, drag) = 0

\* C16 (release outside): a commit event without a release target changes
\* neither the lists nor the active list id and raises no error: the workspace
\* stays as the last live-preview event left it.
C16_ReleaseOutsideChangesNothing ==
  [][(ev'.op = "dragEnd" /\ ev'.over = Null)
     => lists' = lists /\ activeListId' = activeListId /\ ~crashed']_vars

\* C16 witness: a gesture has ended without a release target while the move of
\* its last live-preview event was not yet rendered: the task is in the list
\* the preview moved it to
C16_ReleasedOutside ==
  /\ ev.op = "dragEnd" /\ ev.case = "nowhere" /\ drag = Null
  /\ Holders(lists, ev.taskId) # {}
  /\ Holders(lists, ev.taskId) # Holders(rLists, ev.taskId)

\* C17 (unknown ids): when the task of a drag event is in no list of the
\* workspace, or its target is neither a list of the workspace nor a task in
\* one, the live-preview handler and the commit handler leave the lists and
\* the active list id unchanged and raise no error.
C17_UnknownIdsAreDropped ==
  [][(/\ ev'.op \in {"dragOver", "dragEnd"}
      /\ \/ HolderOf(lists, ev'.taskId) = Null
         \/ ev'.over # Null /\ TargetOf(lists, ev'.over) = Null)
     => lists' = lists /\ activeListId' = activeListId /\ ~crashed']_vars

\* C17 divergence: the timeout of the dragged task had removed it from the
\* workspace, and a live-preview event for it has put undefined into a list
C17_RemovedTaskInserted ==
  /\ ev.op = "dragOver" /\ ev.taskId \notin TaskIds(lists)
  /\ hasUndefined(lists)

\* C18 (deleting twice): when a task was deleted twice before its delay elapsed,
\* the two timeouts remove it exactly once: when the second one has fired the
\* task is in no list, and that timeout changed no other task of any list and
\* raised no error.
C18_DeletedTwiceRemovedOnce ==
  [][(ev'.op = "timeout" /\ ~ev'.marked)
     => /\ ev'.taskId \notin TaskIds(lists')
        /\ Len(lists') = Len(lists)
        /\ \A i \in 1..Len(lists) :
              Without(lists'[i], ev'.taskId) = Without(lists[i], ev'.taskId)
        /\ ~crashed']_vars

\* C18 divergence: the second timeout of a task deleted twice has fired and the
\* task is still in a list
C18_SurvivedBothTimeouts ==
  ev.op = "timeout" /\ ~ev.marked /\ ev.taskId \in TaskIds(lists)

\* the tasks a step put in front of the tasks the list at position i held
Incoming(i) == SubSeq(lists'[i].tasks, 1, Len(lists'[i].tasks) - Len(lists[i].tasks))

\* C19 (router prepend order): an ingestion leaves every list of the workspace
\* with the tasks it held, in their order, behind the tasks it received; the
\* received tasks are new and in the order the parser made them (increasing
\* uid), a list that received none is unchanged, and ingesting the lines a, b
\* into one list puts a first and b second in front of what the list held.
C19_RouterPrepends ==
  [][ev'.op = "paste"
     => /\ Len(lists') >= Len(lists)
        /\ \A i \in 1..Len(lists) :
              /\ Len(lists'[i].tasks) >= Len(lists[i].tasks)
              /\ lists'[i] = [lists[i] EXCEPT !.tasks = Incoming(i) \o @]
              /\ \A j \in 1..Len(Incoming(i)) :
                    /\ Incoming(i)[j].id \notin TaskIds(lists)
                    /\ j > 1 => Incoming(i)[j - 1].id < Incoming(i)[j].id
              /\ (ev'.text = TextTwoItems /\ Incoming(i) # <<>>)
                    => [j \in 1..Len(Incoming(i)) |-> Incoming(i)[j].text] = <<<<"a">>, <<"b">>>>]_vars

\* C19 witness: the lines a, b have been ingested into a list that held a task:
\* the list now holds a, b and then that task
C19_TwoInFrontOfOne ==
  /\ ev.op = "paste" /\ ev.text = TextTwoItems
  /\ \E i \in 1..Len(lists) :
        /\ Len(lists[i].tasks) = 3
        /\ lists[i].tasks[1].text = <<"a">> /\ lists[i].tasks[2].text = <<"b">>
        /\ lists[i].tasks[3].id < lists[i].tasks[1].id

\* how a list name is compared: trimmed, in lower case
Key(name) == toLowerCase(trim(name))

\* the list name a heading line stands for
HeadingName(line) == IF stripHeading(line) = <<>> THEN Untitled ELSE stripHeading(line)

\* the names of the heading lines, in the order of their first occurrence, that
\* are not among the names known
RECURSIVE NewNames(_, _)
NewNames(lines, known) ==
  IF lines = <<>> THEN <<>>
  ELSE IF isHeading(Head(lines)) /\ Key(HeadingName(Head(lines))) \notin known
       THEN <<HeadingName(Head(lines))>>
              \o NewNames(Tail(lines), known \cup {Key(HeadingName(Head(lines)))})
       ELSE NewNames(Tail(lines), known)

\* the item lines as pairs <<name of the heading above, text of the item>>
RECURSIVE Under(_, _)
Under(lines, heading) ==
  IF lines = <<>> THEN {}
  ELSE IF isHeading(Head(lines)) THEN Under(Tail(lines), Key(HeadingName(Head(lines))))
       ELSE {<<heading, itemText(Head(lines))>>} \cup Under(Tail(lines), heading)

\* C20 (lists made by an ingestion): when text that starts with a heading is
\* ingested in group mode, one list is appended to the workspace for each
\* heading name that named no list before, in the order in which these names
\* first occur in the text; the lists that existed keep their places; every
\* item under such a heading is a task of the list made for its name; and the
\* ingestion adds as many tasks as the text has item lines.
C20_HeadingsBecomeLists ==
  [][(/\ ev'.op = "paste" /\ ev'.mode = "group" /\ ev'.target = "auto"
      /\ linesOf(ev'.text) # <<>> /\ isHeading(Head(linesOf(ev'.text))))
     => \E lines \in {linesOf(ev'.text)} :
        \E new \in {NewNames(lines, {Key(lists[i].name) : i \in 1..Len(lists)})} :
          /\ Len(lists') = Len(lists) + Len(new)
          /\ \A i \in 1..Len(lists) : lists'[i].id = lists[i].id
          /\ \A k \in 1..Len(new) : lists'[Len(lists) + k].name = new[k]
          /\ \A p \in Under(lines, Null) :
                (\E k \in 1..Len(new) : Key(new[k]) = p[1])
                => \E j \in (Len(lists) + 1)..Len(lists') :
                      /\ Key(lists'[j].name) = p[1]
                      /\ \E n \in 1..Len(lists'[j].tasks) :
                            /\ lists'[j].tasks[n].text = p[2]
                            /\ lists'[j].tasks[n].id \in AddedTaskIds
          /\ Cardinality(AddedTaskIds) = Len(SelectSeq(lines, LAMBDA l : ~isHeading(l)))]_vars

\* C20 divergence: text with two headings of one name has been ingested, and the
\* last two lists of the workspace, both made by this ingestion, bear that name
C20_TwoListsForOneName ==
  /\ ev.op = "paste" /\ ev.mode = "group" /\ ev.target = "auto"
  /\ ev.text = TextTwoHeadings
  /\ Len(lists) >= 2
  /\ lists[Len(lists)].name = Untitled /\ lists[Len(lists)].id = nextUid - 2
  /\ lists[Len(lists) - 1].name = Untitled /\ lists[Len(lists) - 1].id = nextUid - 4

\* C21 (the parser has no side effect): whenever an ingestion has called
\* parseTextToTasks, for whatever text, mode and target, that call queued no
\* list for creation and drew uids for its tasks only: creating lists is left
\* to the step that applies the mapping.
C21_ParserCreatesNoList ==
  (ev.op = "paste" /\ ev.text # <<>>) => ev.parsed.created = <<>>

\* C21 divergence: the parser, in group mode with target auto, has queued the
\* creation of a list for a heading
C21_ParserQueuedAList ==
  /\ ev.op = "paste" /\ ev.text = TextHeadingsXY
  /\ ev.mode = "group" /\ ev.target = "auto"
  /\ Len(ev.parsed.created) = 2
  /\ \A i \in 1..2 : ev.parsed.created[i].id \in DOMAIN ev.parsed.map

\* the lines of a text as the claims describe them: line endings normalised,
\* each line trimmed, empty lines discarded
Lines(text) == linesOf(text)

\* a line that ends in a colon, ASCII or full-width
EndsInColon(line) == line[Len(line)] \in Colons

\* the first k characters of the line are a bullet character, or digits and a dot
IsMarker(line, k) ==
  \/ k = 1 /\ line[1] \in BulletChars
  \/ k >= 2 /\ line[k] = "." /\ \A i \in 1..(k - 1) : line[i] \in Digits

\* the text of the item a line yields: the remainder after a marker that is
\* followed by white space, the line itself when it has no such marker
ItemOf(line) ==
  IF \E k \in 1..(Len(line) - 2) : IsMarker(line, k) /\ line[k + 1] \in WhiteSpace
  THEN LET k == CHOOSE n \in 1..(Len(line) - 2) : IsMarker(line, n) /\ line[n + 1] \in WhiteSpace
       IN  trimStart(SubSeq(line, k + 1, Len(line)))
  ELSE line

\* the items of the lines in line order, each as <<name of the nearest heading
\* above it (<<>>: none), text>>
RECURSIVE Routed(_, _)
Routed(lines, heading) ==
  IF lines = <<>> THEN <<>>
  ELSE IF EndsInColon(Head(lines))
       THEN Routed(Tail(lines), Key(HeadingName(Head(lines))))
       ELSE <<<<heading, ItemOf(Head(lines))>>>> \o Routed(Tail(lines), heading)

\* the tasks of a mapping as <<bucket, index>>, and the place of one in uid order
Entries(map) == UNION {{<<b, j>> : j \in 1..Len(map[b])} : b \in DOMAIN map}
Rank(map, e) ==
  Cardinality({f \in Entries(map) : map[f[1]][f[2]].id <= map[e[1]][e[2]].id})

\* the name of the list id of the workspace
NameOf(id) == lists[findList(lists, id)].name

\* C22 (parser, group mode, target auto): the mapping holds one task for each
\* line that does not end in a colon and none for a line that does; in the
\* order the tasks were made they are the items of these lines in line order;
\* the text of each is the line without its marker ("- ", "* ", "BULLET ",
\* digits ". "), or the line itself; each is in the bucket of the list named by
\* the nearest heading above it (of the active list when there is none), and
\* the tasks of a bucket are in line order.
C22_GroupModeParses ==
  (ev.op = "paste" /\ ev.text # <<>> /\ ev.mode = "group" /\ ev.target = "auto")
  => \E map \in {ev.parsed.map} : \E items \in {Routed(Lines(ev.text), <<>>)} :
       /\ Cardinality(Entries(map)) = Len(items)
       /\ \A e \in Entries(map) :
             /\ map[e[1]][e[2]].text = items[Rank(map, e)][2]
             /\ IF items[Rank(map, e)][1] = <<>> THEN e[1] = activeListId
                ELSE Key(NameOf(e[1])) = items[Rank(map, e)][1]
             /\ e[2] > 1 => map[e[1]][e[2] - 1].id < map[e[1]][e[2]].id

\* C22 witness: the text "x:", "- a", "b" has been parsed in group mode: the
\* bucket of the list x holds a, without its marker, and then b
C22_BulletUnderHeading ==
  /\ ev.op = "paste" /\ ev.text = TextBullets /\ ev.mode = "group" /\ ev.target = "auto"
  /\ \E b \in DOMAIN ev.parsed.map :
        /\ NameOf(b) = <<"x">>
        /\ [j \in 1..Len(ev.parsed.map[b]) |-> ev.parsed.map[b][j].text] = <<<<"a">>, <<"b">>>>

\* the id of the first list of ls whose name compares equal to the key
FirstNamed(ls, key) ==
  ls[CHOOSE i \in 1..Len(ls) :
        /\ Key(ls[i].name) = key
        /\ \A k \in 1..(i - 1) : Key(ls[k].name) # key].id

\* C23 (parser, group mode, target auto): when a heading's name equals, trimmed
\* and without regard to case, the name of a list the workspace already has,
\* no list of that name is queued for creation and every item under the
\* heading is in the bucket of the first list of that name.
C23_HeadingReusesExistingList ==
  [][(ev'.op = "paste" /\ ev'.text # <<>> /\ ev'.mode = "group" /\ ev'.target = "auto")
     => \E map \in {ev'.parsed.map} : \E items \in {Routed(Lines(ev'.text), <<>>)} :
          \A line \in {Lines(ev'.text)[n] : n \in 1..Len(Lines(ev'.text))} :
             (/\ EndsInColon(line)
              /\ \E i \in 1..Len(lists) : Key(lists[i].name) = Key(HeadingName(line)))
             => /\ \A j \in 1..Len(ev'.parsed.created) :
                      Key(ev'.parsed.created[j].name) # Key(HeadingName(line))
                /\ \A e \in Entries(map) :
                      items[Rank(map, e)][1] = Key(HeadingName(line))
                      => e[1] = FirstNamed(lists, Key(HeadingName(line)))]_vars

\* C23 witness: the heading "X：" has been parsed while a list named x existed:
\* no list was queued and the bucket of that list holds the item b
C23_UpperCaseHeadingReused ==
  /\ ev.op = "paste" /\ ev.text = TextNumbered /\ ev.mode = "group" /\ ev.target = "auto"
  /\ ev.parsed.created = <<>>
  /\ \E b \in DOMAIN ev.parsed.map :
        /\ NameOf(b) = <<"x">>
        /\ \E j \in 1..Len(ev.parsed.map[b]) : ev.parsed.map[b][j].text = <<"b">>

\* the texts of the tasks of a bucket, in order
TextsOf(tasks) == [j \in 1..Len(tasks) |-> tasks[j].text]

\* C24 (parser, single mode, target auto): while the workspace has an active
\* list, the mapping has that list as its only key, and the texts of its
\* tasks are the lines of the text (line endings normalised, trimmed, empty
\* lines discarded), one task a line, as they are written and in line order.
C24_SingleModeOneItemPerLine ==
  [][(/\ ev'.op = "paste" /\ ev'.text # <<>> /\ ev'.mode = "single" /\ ev'.target = "auto"
      /\ \E i \in 1..Len(lists) : lists[i].id = activeListId)
     => /\ DOMAIN ev'.parsed.map = {activeListId}
        /\ TextsOf(ev'.parsed.map[activeListId]) = Lines(ev'.text)
        /\ ev'.parsed.created = <<>>]_vars

\* C24 witness: the text "x:", "- a", "b" has been parsed in single mode: the
\* bucket of the active list holds the three lines, heading and marker included
C24_HeadingKeptAsItem ==
  /\ ev.op = "paste" /\ ev.text = TextBullets /\ ev.mode = "single" /\ ev.target = "auto"
  /\ activeListId \in DOMAIN ev.parsed.map
  /\ TextsOf(ev.parsed.map[activeListId]) = <<<<"x", ":">>, <<"-", " ", "a">>, <<"b">>>>

\* C25 (parser, target inbox, today or active): in either mode the mapping has
\* exactly one key, the texts of its tasks are the lines of the text as they
\* are written, headings and markers included, in line order, and no list
\* named by a heading is queued for creation (only Inbox or Today can be).
C25_ForcedTargetOneBucket ==
  (ev.op = "paste" /\ ev.text # <<>> /\ ev.target \in {"inbox", "today", "active"})
  => /\ Cardinality(DOMAIN ev.parsed.map) = 1
     /\ \A b \in DOMAIN ev.parsed.map : TextsOf(ev.parsed.map[b]) = Lines(ev.text)
     /\ \A j \in 1..Len(ev.parsed.created) :
           Key(ev.parsed.created[j].name) \in {Key(Inbox), Key(Today)}

\* C25 witness: the text "x:", "- a", "b" has been parsed in group mode with
\* the target inbox: one bucket holds the three lines, and no list is named x
C25_GroupModeOverridden ==
  /\ ev.op = "paste" /\ ev.text = TextBullets /\ ev.mode = "group" /\ ev.target = "inbox"
  /\ \E b \in DOMAIN ev.parsed.map :
        /\ Key(NameOf(b)) = Key(Inbox)
        /\ TextsOf(ev.parsed.map[b]) = <<<<"x", ":">>, <<"-", " ", "a">>, <<"b">>>>
  /\ \A i \in 1..Len(lists) : lists[i].name # <<"x">>

\* the lines of the text that are headings
Headings(text) == {line \in {Lines(text)[n] : n \in 1..Len(Lines(text))} : EndsInColon(line)}

\* the tasks of the lines above the first heading are in the bucket of the list a
BeforeHeadingsIn(p, text, a) ==
  \E items \in {Routed(Lines(text), <<>>)} :
     \A e \in Entries(p.map) : items[Rank(p.map, e)][1] = <<>> => e[1] = a

\* C26 as stated (parser, group mode, target auto, an active list): the tasks
\* of the lines above the first heading are in the bucket of the active list,
\* and when the first line is a heading the active list is not a key of the
\* mapping.
C26_HeadingFirstLeavesActiveOut ==
  [][(/\ ev'.op = "paste" /\ ev'.text # <<>> /\ ev'.mode = "group" /\ ev'.target = "auto"
      /\ \E i \in 1..Len(lists) : lists[i].id = activeListId)
     => /\ BeforeHeadingsIn(ev'.parsed, ev'.text, activeListId)
        /\ EndsInColon(Lines(ev'.text)[1]) => activeListId \notin DOMAIN ev'.parsed.map]_vars

\* C26 amended: the tasks of the lines above the first heading are in the
\* bucket of the active list, and when the first line is a heading the active
\* list is a key of the mapping only if a heading of the text names it.
C26_ActiveBucketOpenedLazily ==
  [][(/\ ev'.op = "paste" /\ ev'.text # <<>> /\ ev'.mode = "group" /\ ev'.target = "auto"
      /\ \E i \in 1..Len(lists) : lists[i].id = activeListId)
     => /\ BeforeHeadingsIn(ev'.parsed, ev'.text, activeListId)
        /\ (EndsInColon(Lines(ev'.text)[1]) /\ activeListId \in DOMAIN ev'.parsed.map)
           => \E line \in Headings(ev'.text) :
                 Key(HeadingName(line)) = Key(lists[findList(lists, activeListId)].name)]_vars

\* C26 witness: the text "x:", "- a", "b" has been parsed in group mode while
\* the list x was the active one: its bucket holds a and b
C26_HeadingNamesActiveList ==
  /\ ev.op = "paste" /\ ev.text = TextBullets /\ ev.mode = "group" /\ ev.target = "auto"
  /\ ev.parsed.created = <<>>
  /\ activeListId \in DOMAIN ev.parsed.map
  /\ NameOf(activeListId) = <<"x">>
  /\ TextsOf(ev.parsed.map[activeListId]) = <<<<"a">>, <<"b">>>>

\* C27 (auto-reset tick): when the timer fires while the stored last-reset
\* date is not today, the lists stay the same lists in the same sequence (id,
\* name, flag), every list flagged for auto-reset has no task afterwards,
\* every other list has the tasks it had, in order, and the stored date is today.
C27_TickEmptiesFlaggedLists ==
  [][(ev'.op = "tick" /\ lastResetDate # "today")
     => /\ Len(lists') = Len(lists)
        /\ \A i \in 1..Len(lists) :
              /\ lists'[i].id = lists[i].id
              /\ lists'[i].name = lists[i].name
              /\ lists'[i].autoResetMidnight = lists[i].autoResetMidnight
              /\ lists'[i].tasks = IF lists[i].autoResetMidnight THEN <<>> ELSE lists[i].tasks
        /\ lastResetDate' = "today"]_vars

\* C27 witness: a reset has just run: a flagged list is empty, a list that is
\* not flagged holds two tasks, and a task that was added is in no list
C27_FlaggedListEmptied ==
  /\ ev.op = "tick" /\ ev.reset
  /\ \E i, k \in 1..Len(lists) :
        /\ lists[i].autoResetMidnight /\ lists[i].tasks = <<>>
        /\ ~lists[k].autoResetMidnight /\ Len(lists[k].tasks) = 2
  /\ nextUid = 6
  /\ Cardinality(TaskIds(lists)) = 2

\* C28 (removeList): after a list is removed the workspace has one list less;
\* the lists in front of the removed one and those behind it are what they
\* were, tasks and order included, in the same relative position; the id of
\* the removed list and the ids of the tasks it held are nowhere in the
\* workspace.
C28_RemoveListDiscardsListAndTasks ==
  [][ev'.op = "removeList"
     => \E k \in {findList(lists, ev'.id)} :
          /\ k # 0
          /\ Len(lists') = Len(lists) - 1
          /\ \A i \in 1..Len(lists') : lists'[i] = IF i < k THEN lists[i] ELSE lists[i + 1]
          /\ ev'.id \notin ListIds(lists')
          /\ \A j \in 1..Len(lists[k].tasks) : lists[k].tasks[j].id \notin TaskIds(lists')]_vars

\* C28 witness: the list 1 has just been removed with the tasks 3 and 4 it
\* held (no other operation here takes a task out of a list that stays), and
\* the list 2 still holds the task 5
C28_ListWithTasksRemoved ==
  /\ ev.op = "removeList" /\ ev.id = 1
  /\ nextUid = 6
  /\ ListIds(lists) = {2}
  /\ TaskIds(lists) = {5}

\* every task of the workspace
AllTasks == UNION {{lists[i].tasks[j] : j \in 1..Len(lists[i].tasks)} : i \in 1..Len(lists)}

\* a token matches a task as the search boundary says: a token with the prefix
\* # when the rest of it is one of the tags, any other token when it is part of
\* the text or is one of the tags (all in lower case)
TokenMatchesAsSpecified(t, q) ==
  IF Head(q) = "#"
  THEN \E k \in 1..Len(t.tags) : norm(t.tags[k]) = Tail(q)
  ELSE \/ includes(norm(t.text), q)
       \/ \E k \in 1..Len(t.tags) : norm(t.tags[k]) = q

\* C29 (search predicate): a task matches the query exactly when every token
\* of the query matches it, a token with the prefix # matching only a tag equal
\* to the rest of it and any other token a part of the text or a whole tag; a
\* query without a token matches every task.
C29_MatchesAsSpecified ==
  \A t \in AllTasks :
     taskMatches(t) <=> \A n \in 1..Len(queryTokens) : TokenMatchesAsSpecified(t, queryTokens[n])

\* C29 witness: the query is "#A", a task has "#a" in its text and no tag, and
\* the grid shows it
C29_TagTokenFoundInText ==
  /\ search = <<"#", "A">>
  /\ \E i \in 1..Len(filteredLists) : \E j \in 1..Len(filteredLists[i].tasks) :
        /\ filteredLists[i].tasks[j].text = <<"x", " ", "#", "A">>
        /\ filteredLists[i].tasks[j].tags = <<>>

\* C30 (search and drag): while the query holds a token no drag event is
\* handled (no gesture starts, no live-preview event and no commit event
\* arrives) and no gesture is under way; typing into the search box changes
\* neither the lists nor the active list.
C30_NoDragWhileSearching ==
  [][/\ Len(tokensOf(search)) > 0 => ev'.op \notin {"dragStart", "dragOver", "dragEnd"}
     /\ Len(tokensOf(search')) > 0 => drag' = Null
     /\ ev'.op = "setSearch" => lists' = lists /\ activeListId' = activeListId]_vars

\* C30 witness: an event has been handled while the query "a" was in the
\* search box, with a task that had been dragged to the second list on screen
C30_SearchingWithTasksOnScreen ==
  /\ search = <<"a">>
  /\ ev.op \in {"addTask", "editTask"}
  /\ Len(filteredLists) = 2
  /\ filteredLists[2].tasks # <<>>

RECURSIVE Open(_)
Open(tasks) ==
  IF tasks = <<>> THEN <<>>
  ELSE (IF Head(tasks).completed THEN <<>> ELSE <<Head(tasks)>>) \o Open(Tail(tasks))

\* C32 (archiveCompleted): the list it is called for loses exactly its
\* completed tasks and keeps the others as they are, in their order; every
\* other list, and the list itself but for its tasks, is unchanged; archiving
\* the same list again changes nothing.
C32_ArchiveRemovesCompletedOnly ==
  [][ev'.op = "archiveCompleted"
     => /\ Len(lists') = Len(lists)
        /\ \A i \in 1..Len(lists) :
              lists'[i] = IF lists[i].id = activeList
                          THEN [lists[i] EXCEPT !.tasks = Open(lists[i].tasks)]
                          ELSE lists[i]
        /\ (archiveCompleted(activeList).lists)' = lists']_vars

\* C32 witness: the active list has just been archived and holds two tasks
\* that are not completed, a third task is gone, and another list still holds
\* a completed task
C32_ArchivedBetweenTwoOpen ==
  /\ ev.op = "archiveCompleted"
  /\ nextUid = 7
  /\ \E i, k \in 1..Len(lists) :
        /\ lists[i].id = activeListId
        /\ [j \in 1..Len(lists[i].tasks) |-> lists[i].tasks[j].id] = <<5, 3>>
        /\ \A j \in 1..2 : ~lists[i].tasks[j].completed
        /\ [j \in 1..Len(lists[k].tasks) |-> lists[k].tasks[j].id] = <<6>>
        /\ lists[k].tasks[1].completed

\* C33 (one reset a day): when the timer fires while the stored last-reset date
\* is today, nothing changes: the lists, the tasks of the flagged lists
\* included, the active list and the stored date are what they were.
C33_TickOnSameDateChangesNothing ==
  [][(ev'.op = "tick" /\ lastResetDate = "today")
     => /\ lists' = lists
        /\ activeListId' = activeListId
        /\ lastResetDate' = "today"]_vars

\* C33 witness: the timer has just fired without a reset while a flagged list
\* holds the task 5, the tasks 3 and 4 having been cleared by a reset before
C33_TaskSurvivesLaterTick ==
  /\ ev.op = "tick" /\ ~ev.reset
  /\ nextUid = 6
  /\ TaskIds(lists) = {5}
  /\ \E i \in 1..Len(lists) : lists[i].autoResetMidnight /\ lists[i].tasks # <<>>

\* C34 (addTask): with a text that is not blank and a list in the workspace,
\* the list the active reference resolves to gets one task in front of the
\* tasks it had, a task with a fresh id, the trimmed text, not completed, of
\* medium priority and without tags, and no other list changes; with a blank
\* text, or without a list, the workspace stays as it is.
C34_AddTaskPrependsToActiveList ==
  [][ev'.op = "addTask"
     => IF trim(ev'.text) # <<>> /\ Len(lists) > 0
        THEN /\ Len(lists') = Len(lists)
             /\ \A i \in 1..Len(lists) :
                   IF lists[i].id = activeList
                   THEN /\ lists'[i] = [lists[i] EXCEPT !.tasks = <<lists'[i].tasks[1]>> \o @]
                        /\ lists'[i].tasks[1].id \notin TaskIds(lists) \cup ListIds(lists)
                        /\ lists'[i].tasks[1].text = trim(ev'.text)
                        /\ ~lists'[i].tasks[1].completed
                        /\ lists'[i].tasks[1].priority = "med"
                        /\ lists'[i].tasks[1].tags = <<>>
                   ELSE lists'[i] = lists[i]
             /\ \E i \in 1..Len(lists) : lists[i].id = activeList
        ELSE lists' = lists]_vars

\* C34 witness: the task " a " has just been added to the second list, the
\* active one, in front of the task it held
C34_SecondTaskInFront ==
  /\ ev.op = "addTask" /\ ev.text = <<" ", "a", " ">>
  /\ Len(lists) = 2 /\ activeListId = lists[2].id
  /\ Len(lists[2].tasks) = 2
  /\ lists[2].tasks[1].id > lists[2].tasks[2].id
  /\ lists[2].tasks[1].text = <<"a">>

\* the lists without their tasks: how many, in which order, id, name and flag
Containers(ls) ==
  [i \in 1..Len(ls) |->
     [id |-> ls[i].id, name |-> ls[i].name, autoResetMidnight |-> ls[i].autoResetMidnight]]

\* C35 (operations on tasks): a live-preview or commit drag event, addTask,
\* toggleTask, editTask, deleteTask and its timeout, archiveCompleted and the
\* auto-reset timer leave the number of the lists, their order, ids, names and
\* auto-reset flags as they were.
C35_TaskOperationsKeepContainers ==
  [][ev'.op \in {"dragOver", "dragEnd", "addTask", "toggleTask", "editTask", "deleteTask",
                 "timeout", "archiveCompleted", "tick"}
     => Containers(lists') = Containers(lists)]_vars

\* C35 witness: a commit drag event has just been handled that left the task
\* in the second of the lists, the flagged one
C35_DroppedIntoFlaggedList ==
  /\ ev.op = "dragEnd" /\ ev.case = "cross"
  /\ Len(lists) >= 2
  /\ lists[2].autoResetMidnight
  /\ lists[2].tasks # <<>>

\* C36 (pending removals): under fair delivery of the timeouts, a task id that
\* is in `deleting` is eventually not in it, and once no deleteTask is called
\* any more `deleting` is eventually empty for good, also when a task was
\* deleted twice or its list was removed before the timeout.
C36_MarksAreCleared ==
  /\ \A t \in 1..(MaxFadeUid + 1) : (t \in deleting) ~> (t \notin deleting)
  /\ <>[](ev.op # "deleteTask") => <>[](deleting = {})

\* C36 witness: the second timeout of a task that was deleted twice has fired
\* after the list of the task was removed; no mark and no timeout is left
C36_SecondTimeoutAfterListRemoved ==
  /\ ev.op = "timeout" /\ ~ev.marked
  /\ ev.taskId \notin TaskIds(lists)
  /\ Len(lists) = 1
  /\ deleting = {} /\ timers = <<>>

\* the line starts with a bullet character or digits and a dot, followed by
\* white space
StartsWithMarker(line) ==
  \E k \in 1..(Len(line) - 1) : IsMarker(line, k) /\ line[k + 1] \in WhiteSpace

\* the line is a bullet character, or digits and a dot, and nothing else
BareMarker(line) == IsMarker(line, Len(line))

\* C37 (parser, group mode, target auto): a line that starts with a marker and
\* ends in a colon is a heading: no task has a text taken from it, and a bucket
\* of the mapping belongs to a list whose name is the line without the colon,
\* marker included; a line that is a marker and nothing else yields a task with
\* the line as its text.
C37_HeadingBeforeBullet ==
  (ev.op = "paste" /\ ev.text # <<>> /\ ev.mode = "group" /\ ev.target = "auto")
  => \E map \in {ev.parsed.map} : \E lines \in {Lines(ev.text)} :
       /\ Cardinality(Entries(map)) = Cardinality({n \in 1..Len(lines) : ~EndsInColon(lines[n])})
       /\ \A n \in 1..Len(lines) :
             /\ (StartsWithMarker(lines[n]) /\ EndsInColon(lines[n]))
                => /\ \E b \in DOMAIN map :
                         NameOf(b) = trim(SubSeq(lines[n], 1, Len(lines[n]) - 1))
                   /\ \A e \in Entries(map) :
                         map[e[1]][e[2]].text \notin {lines[n], ItemOf(lines[n])}
             /\ BareMarker(lines[n])
                => \E e \in Entries(map) : map[e[1]][e[2]].text = lines[n]

\* C37 witness: the lines "- a:", "-" and "1." have been parsed in group mode:
\* a list named "- a" holds the tasks "-" and "1."
C37_MarkedHeadingParsed ==
  /\ ev.op = "paste" /\ ev.text = TextMarkedHeading
  /\ ev.mode = "group" /\ ev.target = "auto"
  /\ \E b \in DOMAIN ev.parsed.map :
        /\ NameOf(b) = <<"-", " ", "a">>
        /\ TextsOf(ev.parsed.map[b]) = <<<<"-">>, <<"1", ".">>>>


(* ------------------------------------------------------------------ *)
(* C38                                                                *)
(* ------------------------------------------------------------------ *)
\* what is observed of a handler's result: the lists with their tasks in order,
\* and the active list
Observed(r) == <<r.lists, r.activeListId>>

\* ingestion with target today while the rendered lists hold no list named Today
Excepted(e) == e.op = "paste" /\ e.target = "today" /\ findTodayId = Null

\* C38: in every reachable workspace and for every event other than an ingestion
\* with target today while no list is named Today, the handler of src/src/App.tsx
\* and the handler of src/unnamed/part_000 leave the same lists, the same task
\* orders and the same active list. Both start from the same workspace, so that
\* they agree after every sequence of such events.
C38_VariantsAgree ==
  (ev.op = "handOver" /\ ~Excepted(ev.input))
     => Observed(handlerOf(ev.input)) = Observed(ev.result)

\* C38 witness: part_000 receives a text for target today while a list named
\* Today exists that is not the active one, after App.tsx had the workspace;
\* the text reaches that list, which becomes the active one
C38_TodayTargetInBothVariants ==
  /\ ev.op = "handOver" /\ variant = "part_000"
  /\ ev.input.op = "paste" /\ ev.input.target = "today" /\ ev.input.mode = "group"
  /\ findTodayId # Null /\ findTodayId # activeList
  /\ ev.result.activeListId = findTodayId
  /\ ev.result.lists # lists


====
